---------------------------- MODULE Spec2Model ----------------------------
(***************************************************************************)
(* Model of the artifact retrieval and archive staging pipeline of         *)
(* react-native-skia-binaries: downloadToFile (attemptDownload, request,   *)
(* downloadWithRetry), extractTarGz, copyDir and the fetch-and-stage       *)
(* operation downloadAndExtractAsset / downloadArtifact, as they appear in *)
(* the post-install script, the package generator and the standalone       *)
(* downloader.                                                             *)
(*                                                                         *)
(* One step of the model is one callback of the event loop: a response     *)
(* callback, a stream event handler, a timer, a child-process event, or    *)
(* the continuation of an await.  The server, the network, the file        *)
(* system and the tar subprocess are the environment: their answers are    *)
(* chosen with \E from the small sets below.                               *)
(***************************************************************************)
EXTENDS Integers, Sequences, FiniteSets, TLC

VARIABLES
    site,          \* which script runs the operation
    srcSubdir,     \* the srcSubdir argument of the operation ("" when not given)
    stage,         \* position of the fetch-and-stage operation
    tempDir,       \* TRUE while the scratch directory exists on disk
    candidates,    \* extractTarGz: the candidate executables of this call
    candidate,     \* extractTarGz: index of the candidate that is running
    lastError,     \* extractTarGz: message of lastError (<<>> when undefined)
    extracted,     \* the tree under extractDir
    sourceDir,     \* the resolved payload root, a path under extractDir
    destExists,    \* TRUE when destDir exists
    dest,          \* the tree under destDir
    pc,            \* position of downloadToFile ("crashed": the process has died)
    retryCount,    \* parameter of the running downloadWithRetry call
    currentUrl,    \* URL of the request in flight
    lastRes,       \* the response the running attempt's last callback was called with
    destFile,      \* the file at destPath (the archive in the scratch directory)
    fileStream,    \* the write stream of the running attempt ("none" before a 200)
    pending,       \* error held by a cleanup whose unlink is in flight
    error,         \* the error most recently caught by downloadWithRetry
    attempts,      \* number of attemptDownload calls of this downloadToFile call
    sleeps,        \* the delays (ms) slept so far by this downloadToFile call
    outcomes,      \* per finished attempt: 200, 403, or 0 for any other error
    opError,       \* the error the fetch-and-stage operation threw, if any
    mainPc,        \* position of the calling script's main
    calls,         \* number of calls of the operation made by this run
    archive,       \* history: the tree the release archive holds, once extracted
    destBefore,    \* history: destDir as it was when the run or the call began
    skipEnv,       \* process.env.SKIP_SKIA_DOWNLOAD ("unset" when not set)
    artifacts,     \* number of artifacts the run has to fetch
    artifact,      \* index of the artifact whose operation is the current one
    installed,     \* the destination directories of the earlier artifacts of the run
    libsDir,       \* post-install script: TRUE while its libs directory exists
    exitStatus,    \* Running, or the status the process has exited with
    skiaVersion,   \* generator: the --skia-version argument
    npmVersion,    \* generator: what deriveNpmVersion has returned or thrown
    ops,           \* interleaved operations: stage, scratch directory, inputs
    tmp,           \* interleaved operations: the scratch directories in os.tmpdir()
    dests,         \* interleaved operations: the destination directories
    platform,      \* post-install script: pkg.skia.platform
    libs,          \* post-install script: libs as the script last found or made it
    run,           \* post-install script: the number of the run of the script
    mode,          \* generator: "single", "single-npm" (--npm-version given) or "config"
    section,       \* generator: the configuration section whose package is generated
    graphiteVersion, \* generator: the version of the skia-graphite section
    pkgDirs,       \* generator: the package directories this run has created
    packageJson,   \* generator: the packages whose package.json and README are written
    asset,         \* URL formation: artifact name, backend flavor and skia version
    packageJsonText, \* URL formation: the skia entry of package.json as JSON text
    requested,     \* URL formation: the URL each call site has requested
    vArgs,         \* checksum verifier: --config (and what it names), --graphite
    vDirs,         \* checksum verifier: the platform directories under libs
    vExpected,     \* checksum verifier: skiaConfig.checksums
    results,       \* checksum verifier: the results of verifyChecksums
    vPc,           \* checksum verifier: position of main
    vStatus        \* checksum verifier: Running, or the exit status

dlVars == <<pc, retryCount, currentUrl, lastRes, destFile, fileStream, pending,
            error, attempts, sleeps, outcomes>>
dlFrame == <<pc, retryCount, currentUrl, lastRes, fileStream, pending, error,
             attempts, sleeps, outcomes>>
exVars == <<candidates, candidate, lastError>>
fsVars == <<extracted, sourceDir, destExists, dest>>
opVars == <<site, srcSubdir, stage, tempDir, opError, candidates, candidate,
            lastError, extracted, sourceDir, destExists, dest>>
runVars == <<mainPc, calls, archive, destBefore>>
\* The value of exitStatus while the process runs.
Running == -1

batchVars == <<skipEnv, artifacts, artifact, installed, libsDir, exitStatus>>
versionVars == <<skiaVersion, npmVersion>>
concVars == <<ops, tmp, dests>>
pkgVars == <<platform, libs, run>>
genVars == <<mode, section, graphiteVersion, pkgDirs, packageJson>>
urlVars == <<asset, packageJsonText, requested>>
checkVars == <<vArgs, vDirs, vExpected, results, vPc, vStatus>>
toolVars == <<urlVars, checkVars>>
auxVars == <<batchVars, versionVars, concVars, pkgVars, genVars, toolVars>>
vars == <<site, srcSubdir, stage, tempDir, candidates, candidate, lastError,
          extracted, sourceDir, destExists, dest, pc, retryCount, currentUrl,
          lastRes, destFile, fileStream, pending, error, attempts, sleeps,
          outcomes, opError, mainPc, calls, archive, destBefore, skipEnv,
          artifacts, artifact, installed, libsDir, exitStatus, skiaVersion,
          npmVersion, ops, tmp, dests, platform, libs, run, mode, section,
          graphiteVersion, pkgDirs, packageJson, asset, packageJsonText,
          requested, vArgs, vDirs, vExpected, results, vPc, vStatus>>

----------------------------------------------------------------------------
(* Program constants *)

\* downloadToFile(url, destPath, maxRetries = 5)
maxRetries == 5

\* [301, 302, 303, 307, 308].includes(res.statusCode)
RedirectStatuses == {301, 302, 303, 307, 308}

\* The three call sites of the pipeline.
Sites == {"postinstall", "generator", "downloader"}

----------------------------------------------------------------------------
(* The environment's answers *)

\* downloadUrl, built from the repository, the release tag and the asset name.
downloadUrl == "https://github.com/shopify/react-native-skia/releases/download/skia-m144/asset.tar.gz"

\* Values a server may put in a Location header: absolute URLs, and a
\* relative reference.
AbsoluteLocations == {"https://cdn.example/asset.tar.gz",
                      "https://cdn.example/rate limit/asset.tar.gz"}

RelativeLocations == {"/asset.tar.gz"}

Locations == AbsoluteLocations \cup RelativeLocations

\* https.get(url, ...) parses a string with new URL(url), which throws a
\* TypeError unless the string is an absolute URL.
IsValidUrl(url) == url \notin RelativeLocations

NoLocation == "undefined"

\* Non-200, non-redirect answers: status code and status message.
StatusAnswers == {<<403, "Forbidden">>, <<404, "Not Found">>,
                  <<429, "Too Many Requests">>, <<429, "rate limit exceeded">>}

\* error.code of the errors the request, the response stream, the file
\* stream and the close of the file stream can raise.
RequestCodes == {"ECONNRESET", "ETIMEDOUT", "ENOTFOUND"}
ResCodes == {"ECONNRESET", "ERR_STREAM_PREMATURE_CLOSE"}
FileStreamCodes == {"ENOSPC"}
CloseCodes == {"EIO"}

----------------------------------------------------------------------------
(* Errors *)

NoError == [kind |-> "none", statusCode |-> 0, code |-> "undefined",
            message |-> <<>>, source |-> "none", attempt |-> 0]

NoRes == [statusCode |-> 0, statusMessage |-> "", location |-> NoLocation]

\* new Error(`Failed to download: ${res.statusCode} ${res.statusMessage}`)
\* with error.statusCode = res.statusCode
StatusError(res, n) ==
    [kind |-> "status", statusCode |-> res.statusCode, code |-> "undefined",
     message |-> <<"Failed to download: ", ToString(res.statusCode), " ",
                   res.statusMessage>>,
     source |-> "response", attempt |-> n]

\* new Error(`Redirect without location for ${currentUrl}`)
RedirectError(url, n) ==
    [kind |-> "redirect", statusCode |-> 0, code |-> "undefined",
     message |-> <<"Redirect without location for ", url>>,
     source |-> "response", attempt |-> n]

\* An error emitted by the request, the response stream or the file stream.
IoError(src, c, n) ==
    [kind |-> "io", statusCode |-> 0, code |-> c,
     message |-> <<c>>, source |-> src, attempt |-> n]

\* The texts of the model that have "rate limit" as a substring.
RateLimitTexts == {"rate limit exceeded",
                   "https://cdn.example/rate limit/asset.tar.gz"}

\* error.message.includes("rate limit"), on a message built from parts
MessageIncludesRateLimit(message) ==
    \E i \in 1..Len(message) : message[i] \in RateLimitTexts

----------------------------------------------------------------------------
(* downloadWithRetry *)

isRateLimit_AnyClientError(e) ==
    e.statusCode >= 400 \/ MessageIncludesRateLimit(e.message)

\* error.statusCode === 403 || error.message.includes("rate limit")
isRateLimit(e) == e.statusCode = 403 \/ MessageIncludesRateLimit(e.message)

shouldRetry_AnyError(e, rc) == rc < maxRetries

shouldRetry_OneMore(e, rc) ==
    rc <= maxRetries /\
    (isRateLimit(e) \/ e.code = "ECONNRESET" \/ e.code = "ETIMEDOUT")

shouldRetry(e, rc) ==
    rc < maxRetries /\
    (isRateLimit(e) \/ e.code = "ECONNRESET" \/ e.code = "ETIMEDOUT")

delay_Linear(rc) == (rc + 1) * 1000

delay_Constant(rc) == 1000

\* Math.pow(2, retryCount) * 1000
delay(rc) == (2 ^ rc) * 1000

\* What the log of attempts keeps of a failed attempt.
Outcome(e) == IF e.statusCode = 403 THEN 403 ELSE 0

\* reject(e) of attemptDownload, followed by the catch block of
\* downloadWithRetry: sleep and retry, or rethrow.
Reject(e) ==
    /\ error' = e
    /\ outcomes' = Append(outcomes, Outcome(e))
    /\ IF shouldRetry(e, retryCount)
         THEN /\ pc' = "sleeping"
              /\ sleeps' = Append(sleeps, delay(retryCount))
         ELSE /\ pc' = "rejected"
              /\ sleeps' = sleeps

\* request(currentUrl): https.get is issued.
request(url) ==
    /\ currentUrl' = url
    /\ pc' = "requesting"

----------------------------------------------------------------------------
(* Errors of the stages after the download *)

\* An error thrown by a file-system call (mkdtempSync, mkdirSync,
\* readdirSync, copyFileSync).
FsError(c) ==
    [kind |-> "fs", statusCode |-> 0, code |-> c, message |-> <<c>>,
     source |-> "fs", attempt |-> 0]

\* new Error("Archive extracted but no contents found")
NoContentsError ==
    [kind |-> "shape", statusCode |-> 0, code |-> "undefined",
     message |-> <<"Archive extracted but no contents found">>,
     source |-> "stage", attempt |-> 0]

ExtractError_Unknown(s, last) ==
    [kind |-> "extract", statusCode |-> 0, code |-> "undefined",
     message |-> <<"Failed to extract: ", "unknown error">>,
     source |-> "stage", attempt |-> 0]

\* new Error(`Failed to extract ...: ${lastError?.message ?? "unknown error"}`)
ExtractError(s, last) ==
    [kind |-> "extract", statusCode |-> 0, code |-> "undefined",
     message |-> (IF s = "postinstall"
                    THEN <<"Failed to extract ", "asset.tar.gz",
                           ". Please install a compatible tar binary. Last error: ">>
                    ELSE <<"Failed to extract: ">>)
                 \o (IF last = <<>> THEN <<"unknown error">> ELSE last),
     source |-> "stage", attempt |-> 0]

----------------------------------------------------------------------------
(* File trees: a tree is a set of nodes, a node has a path below the root   *)
(* of the tree, a kind and, for a regular file, its content.                *)

Node(p, k, d) == [path |-> p, kind |-> k, data |-> d]

\* stat.isSocket() || stat.isFIFO() || stat.isCharacterDevice() || stat.isBlockDevice()
SpecialKinds == {"socket", "fifo", "chardev", "blockdev"}

IsPrefix(p, q) == Len(p) <= Len(q) /\ SubSeq(q, 1, Len(p)) = p

\* fs.readdirSync(dir): the names directly under dir
readdirSync(tree, dir) ==
    {n.path[Len(dir) + 1] :
        n \in {m \in tree : Len(m.path) = Len(dir) + 1 /\ IsPrefix(dir, m.path)}}

KindAt(tree, p) ==
    IF p = <<>> THEN "dir"
    ELSE IF \E n \in tree : n.path = p
           THEN (CHOOSE n \in tree : n.path = p).kind
           ELSE "none"

DataAt(tree, p) == (CHOOSE n \in tree : n.path = p).data

existsSync(tree, p) == KindAt(tree, p) # "none"

isDirectory(tree, p) == KindAt(tree, p) = "dir"

RECURSIVE copyDir(_, _, _)
\* copyDir(src, dest): the nodes it creates or overwrites under the destination
copyDir(tree, src, dst) ==
    {Node(dst, "dir", "")} \cup
    UNION {IF KindAt(tree, Append(src, name)) \in SpecialKinds
             THEN {}
             ELSE IF isDirectory(tree, Append(src, name))
                    THEN copyDir(tree, Append(src, name), Append(dst, name))
                    ELSE {Node(Append(dst, name), "file",
                               DataAt(tree, Append(src, name)))}
           : name \in readdirSync(tree, src)}

\* One turn of the loop over the items of sourceDir:
\* statSync(srcPath).isDirectory() ? copyDir(srcPath, destPath)
\*                                 : fs.copyFileSync(srcPath, destPath)
CopyItem(tree, src, item) ==
    IF isDirectory(tree, Append(src, item))
      THEN copyDir(tree, Append(src, item), <<item>>)
      ELSE {Node(<<item>>, "file", DataAt(tree, Append(src, item)))}

Written_Replaces(tree, writes) == writes

Written_Backup(tree, writes) ==
    {d \in tree : ~\E w \in writes : w.path = d.path} \cup writes \cup
    {Node(<<"backup">> \o d.path, d.kind, d.data) :
        d \in {n \in tree : \E w \in writes : w.path = n.path}}

\* The destination after the nodes of writes were created or overwritten.
Written(tree, writes) ==
    {d \in tree : ~\E w \in writes : w.path = d.path} \cup writes

\* The items of sourceDir on which fs.copyFileSync is called although they
\* are no regular files: the loop over the payload root has no filter.
TopLevelSpecial(tree, src) ==
    {item \in readdirSync(tree, src) :
        KindAt(tree, Append(src, item)) \in SpecialKinds}

----------------------------------------------------------------------------
(* The archives a release may hold, as the trees tar extracts from them.    *)

SrcSubdirs == {"", "ios"}

EmptyArchive == {}

WrappedArchive ==
    {Node(<<"wrapper">>, "dir", ""),
     Node(<<"wrapper", "README.md">>, "file", "readme"),
     Node(<<"wrapper", "ios">>, "dir", ""),
     Node(<<"wrapper", "ios", "libskia.xcframework">>, "dir", ""),
     Node(<<"wrapper", "ios", "libskia.xcframework", "Info.plist">>, "file", "plist"),
     Node(<<"wrapper", "ios", "libskia.a">>, "file", "new")}

FlatArchive ==
    {Node(<<"README.md">>, "file", "readme"),
     Node(<<"ios">>, "dir", ""),
     Node(<<"ios", "libskia.a">>, "file", "new")}

SingleFileArchive == {Node(<<"libskia.a">>, "file", "new")}

EmptyWrapperArchive == {Node(<<"wrapper">>, "dir", "")}

SubdirIsFileArchive ==
    {Node(<<"wrapper">>, "dir", ""),
     Node(<<"wrapper", "ios">>, "file", "new")}

NestedArchive ==
    {Node(<<"wrapper">>, "dir", ""),
     Node(<<"wrapper", "inner">>, "dir", ""),
     Node(<<"wrapper", "inner", "libskia.a">>, "file", "new")}

FifoDeepArchive ==
    {Node(<<"wrapper">>, "dir", ""),
     Node(<<"wrapper", "ios">>, "dir", ""),
     Node(<<"wrapper", "ios", "libskia.xcframework">>, "dir", ""),
     Node(<<"wrapper", "ios", "libskia.xcframework", "Info.plist">>, "file", "plist"),
     Node(<<"wrapper", "ios", "libskia.xcframework", "pipe">>, "fifo", "")}

FifoTopArchive ==
    {Node(<<"wrapper">>, "dir", ""),
     Node(<<"wrapper", "ios">>, "dir", ""),
     Node(<<"wrapper", "ios", "libskia.a">>, "file", "new"),
     Node(<<"wrapper", "ios", "pipe">>, "fifo", "")}

\* The value of archive before the archive was extracted.
NoArchive == {Node(<<>>, "unknown", "")}

Archives == {EmptyArchive, WrappedArchive, FlatArchive, SingleFileArchive,
             EmptyWrapperArchive, SubdirIsFileArchive, NestedArchive,
             FifoDeepArchive, FifoTopArchive}

\* What destDir holds when the script starts: nothing, the files of an
\* earlier run, or entries whose kind differs from the payload's entry of
\* the same name.  The post-install script reaches main only when
\* isInstalled() was false.
OldDest == {Node(<<"libskia.a">>, "file", "old"),
            Node(<<"stale.txt">>, "file", "old")}

ConflictDest == {Node(<<"libskia.a">>, "dir", ""),
                 Node(<<"libskia.a", "keep.txt">>, "file", "old"),
                 Node(<<"ios">>, "file", "old")}

InitialDests(s) ==
    IF s = "postinstall"
      THEN {[exists |-> FALSE, tree |-> {}], [exists |-> TRUE, tree |-> OldDest]}
      ELSE {[exists |-> FALSE, tree |-> {}], [exists |-> TRUE, tree |-> OldDest],
            [exists |-> TRUE, tree |-> ConflictDest]}

----------------------------------------------------------------------------
(* extractTarGz *)

\* The candidate executables, by script and process.platform.
Candidates(s, win32) ==
    IF ~win32 THEN <<"tar">>
    ELSE IF s = "postinstall"
           THEN <<"tar.exe", "C:\\Windows\\System32\\tar.exe", "bsdtar.exe", "bsdtar">>
           ELSE <<"tar.exe", "C:\\Windows\\System32\\tar.exe">>

\* The ways one runCommand(candidate, args) can fail: the child emits
\* 'error' with code ENOENT, 'error' with another code, or closes with a
\* non-zero exit code.
ChildFailures == {"ENOENT", "EACCES", "exit"}

\* lastError.message after the catch block of the loop
LastErrorMessage(command, failure) ==
    IF failure = "ENOENT" THEN <<"Command ", command, " not found">>
    ELSE IF failure = "exit" THEN <<"Command ", command, " exited with code ", "2">>
    ELSE <<"spawn ", command, " ", failure>>

----------------------------------------------------------------------------
(* Payload root *)

\* extractedContents.length === 0 throws in the post-install script and in
\* the generator; the standalone downloader has no such check.
ChecksEmpty(s) == s \in {"postinstall", "generator"}

\* The test that guards the descent into srcSubdir: existsSync and
\* statSync(...).isDirectory() in the post-install script and the generator,
\* existsSync alone in the standalone downloader.
SubdirTest(s, tree, p) ==
    IF s = "downloader" THEN existsSync(tree, p) ELSE isDirectory(tree, p)

ResolveSourceDir_AnySingleEntry(s, tree, sub) ==
    LET extractedContents == readdirSync(tree, <<>>)
    IN IF Cardinality(extractedContents) = 1
         THEN <<CHOOSE n \in extractedContents : TRUE>>
         ELSE <<>>

ResolveSourceDir_NoSubdir(s, tree, sub) ==
    LET extractedContents == readdirSync(tree, <<>>)
    IN IF Cardinality(extractedContents) = 1
          /\ isDirectory(tree, <<CHOOSE n \in extractedContents : TRUE>>)
         THEN <<CHOOSE n \in extractedContents : TRUE>>
         ELSE <<>>

\* sourceDir as the code resolves it from extractDir (the root of tree)
ResolveSourceDir(s, tree, sub) ==
    LET extractedContents == readdirSync(tree, <<>>)
    IN IF Cardinality(extractedContents) = 1
          /\ isDirectory(tree, <<CHOOSE n \in extractedContents : TRUE>>)
         THEN LET top == <<CHOOSE n \in extractedContents : TRUE>>
              IN IF sub # "" /\ SubdirTest(s, tree, Append(top, sub))
                   THEN Append(top, sub)
                   ELSE top
         ELSE <<>>

----------------------------------------------------------------------------
(* Init *)

\* The state of the operation and of downloadToFile before the first call,
\* destDir set aside.
OpIdle ==
    /\ site \in Sites
    /\ srcSubdir \in SrcSubdirs
    /\ stage = "Pending"
    /\ tempDir = FALSE
    /\ candidates = <<>>
    /\ candidate = 0
    /\ lastError = <<>>
    /\ extracted = {}
    /\ sourceDir = <<>>
    /\ calls = 0
    /\ archive = NoArchive
    /\ pc = "idle"
    /\ retryCount = 0
    /\ currentUrl = downloadUrl
    /\ lastRes = NoRes
    /\ destFile = "absent"
    /\ fileStream = "none"
    /\ pending = NoError
    /\ error = NoError
    /\ attempts = 0
    /\ sleeps = <<>>
    /\ outcomes = <<>>
    /\ opError = NoError

\* destDir before the first call.
DestIs(d) ==
    /\ destExists = d.exists
    /\ dest = d.tree
    /\ destBefore = d

OpInit ==
    /\ OpIdle
    /\ \E d \in InitialDests(site) : DestIs(d)

\* The values of pkg.skia.platform; "none" in the scripts that read none.
Platforms == {"android", "apple", "headers"}

\* The state when main reaches its loop over the artifacts (the post-install
\* script: when main is called), in a run with one artifact.
MainInit ==
    /\ platform \in (IF site = "postinstall" THEN {"android", "apple"}
                                             ELSE {"none"})
    /\ platform = "android" => dest = {}
    /\ libs = [exists |-> (site = "postinstall" /\ destExists), tree |-> dest]
    /\ run = 1
    /\ mainPc = IF site = "postinstall" THEN "clearing" ELSE "looping"
    /\ skipEnv = "unset"
    /\ artifacts = 1
    /\ artifact = 1
    /\ installed = <<>>
    /\ libsDir = (site = "postinstall" /\ destExists)
    /\ exitStatus = Running

\* deriveNpmVersion has not been called.
NotDerived == [kind |-> "none", text |-> <<>>]

\* The version of the release the runs download.
DefaultVersion == <<"m", "1", "4", "4">>

\* The generator's own state when one package of a single-mode run is being
\* filled: generatePackage has created the package directory (part_000 655)
\* and has written neither package.json nor README.md yet.
GenIdle(dirs) ==
    /\ mode = "single"
    /\ section = "ganesh"
    /\ graphiteVersion = <<>>
    /\ pkgDirs = dirs
    /\ packageJson = {}

\* The package directories that exist once the artifact loop runs.
CreatedAtLoop == IF site = "generator" THEN {"ganesh"} ELSE {}

\* The URL formation and the checksum verifier are not running.
ToolsIdle ==
    /\ asset = <<>>
    /\ packageJsonText = <<>>
    /\ requested = <<>>
    /\ vArgs = <<>>
    /\ vDirs = <<>>
    /\ vExpected = <<>>
    /\ results = <<>>
    /\ vPc = "idle"
    /\ vStatus = Running

\* No interleaved operations.
ConcIdle ==
    /\ ops = <<>>
    /\ tmp = <<>>
    /\ dests = <<>>

Init ==
    /\ OpInit
    /\ MainInit
    /\ skiaVersion = DefaultVersion
    /\ npmVersion = NotDerived
    /\ ConcIdle
    /\ GenIdle(CreatedAtLoop)
    /\ ToolsIdle

----------------------------------------------------------------------------
(* The fetch-and-stage operation up to the first await, and downloadToFile *)

\* libs is created, its entries left in place.
ClearLibs_KeepsEntries ==
    /\ mainPc = "clearing"
    /\ mainPc' = "looping"
    /\ destExists' = TRUE
    /\ dest' = dest
    /\ UNCHANGED <<site, srcSubdir, stage, tempDir, opError, exVars, extracted,
                   sourceDir, calls, archive, destBefore>>
    /\ UNCHANGED dlVars
    /\ libsDir' = TRUE
    /\ UNCHANGED <<skipEnv, artifacts, artifact, installed, exitStatus>>
    /\ UNCHANGED versionVars
    /\ libs' = [exists |-> TRUE, tree |-> dest']
    /\ UNCHANGED <<platform, run>>
    /\ UNCHANGED concVars
    /\ UNCHANGED genVars
    /\ UNCHANGED toolVars

\* main of the post-install script, before its loop: libs is removed and
\* created again.  destDir is libs itself (single asset) or libs/<arch>
\* (Android).
ClearLibs ==
    /\ mainPc = "clearing"
    /\ mainPc' = "looping"
    /\ destExists' = (platform # "android")
    /\ dest' = {}
    /\ UNCHANGED <<site, srcSubdir, stage, tempDir, opError, exVars, extracted,
                   sourceDir, calls, archive, destBefore>>
    /\ UNCHANGED dlVars
    /\ libsDir' = TRUE
    /\ UNCHANGED <<skipEnv, artifacts, artifact, installed, exitStatus>>
    /\ UNCHANGED versionVars
    /\ libs' = [exists |-> TRUE, tree |-> dest']
    /\ UNCHANGED <<platform, run>>
    /\ UNCHANGED concVars
    /\ UNCHANGED genVars
    /\ UNCHANGED toolVars

\* downloadAndExtractAsset / downloadArtifact is called: mkdtempSync, then
\* downloadToFile runs up to the first https.get.
Start ==
    /\ mainPc = "looping"
    /\ stage = "Pending"
    /\ stage' = "Downloading"
    /\ tempDir' = TRUE
    /\ retryCount' = 0
    /\ attempts' = 1
    /\ request(downloadUrl)
    /\ UNCHANGED <<site, srcSubdir, opError, lastRes, destFile, fileStream,
                   pending, error, sleeps, outcomes>>
    /\ UNCHANGED <<exVars, fsVars>>
    /\ calls' = calls + 1
    /\ UNCHANGED <<mainPc, archive, destBefore>>
    /\ UNCHANGED auxVars

\* mkdtempSync throws: the operation fails before its try block.
StartFails ==
    /\ mainPc = "looping"
    /\ stage = "Pending"
    /\ stage' = "Failed"
    /\ opError' = FsError("mkdtemp")
    /\ UNCHANGED <<site, srcSubdir, tempDir>>
    /\ UNCHANGED <<exVars, fsVars>>
    /\ UNCHANGED dlVars
    /\ calls' = calls + 1
    /\ UNCHANGED <<mainPc, archive, destBefore>>
    /\ UNCHANGED auxVars

\* Response callback, redirect status with a Location header that
\* https.get accepts.
ResponseRedirect ==
    /\ pc = "requesting"
    /\ \E s \in RedirectStatuses, loc \in Locations :
         /\ IsValidUrl(loc)
         /\ lastRes' = [statusCode |-> s, statusMessage |-> "", location |-> loc]
         /\ request(loc)
    /\ UNCHANGED <<retryCount, destFile, fileStream, pending, error, attempts,
                   sleeps, outcomes>>
    /\ UNCHANGED opVars
    /\ UNCHANGED runVars
    /\ UNCHANGED auxVars

\* Response callback, redirect status with a Location header that https.get
\* rejects: request(location) throws inside the callback, outside every
\* promise, and the uncaught exception ends the process.
ResponseRedirectInvalidUrl ==
    /\ pc = "requesting"
    /\ \E s \in RedirectStatuses, loc \in Locations :
         /\ ~IsValidUrl(loc)
         /\ lastRes' = [statusCode |-> s, statusMessage |-> "", location |-> loc]
    /\ pc' = "crashed"
    /\ UNCHANGED <<retryCount, currentUrl, destFile, fileStream, pending, error,
                   attempts, sleeps, outcomes>>
    /\ UNCHANGED opVars
    /\ UNCHANGED runVars
    /\ UNCHANGED auxVars

\* Response callback, redirect status without a Location header.
ResponseRedirectNoLocation ==
    /\ pc = "requesting"
    /\ \E s \in RedirectStatuses :
         lastRes' = [statusCode |-> s, statusMessage |-> "",
                     location |-> NoLocation]
    /\ Reject(RedirectError(currentUrl, attempts))
    /\ UNCHANGED <<retryCount, currentUrl, destFile, fileStream, pending, attempts>>
    /\ UNCHANGED opVars
    /\ UNCHANGED runVars
    /\ UNCHANGED auxVars

\* Response callback, status neither a redirect nor 200.
ResponseStatus ==
    /\ pc = "requesting"
    /\ \E a \in StatusAnswers :
         /\ lastRes' = [statusCode |-> a[1], statusMessage |-> a[2],
                        location |-> NoLocation]
         /\ Reject(StatusError(lastRes', attempts))
    /\ UNCHANGED <<retryCount, currentUrl, destFile, fileStream, pending, attempts>>
    /\ UNCHANGED opVars
    /\ UNCHANGED runVars
    /\ UNCHANGED auxVars

\* Response callback, status 200: createWriteStream(destPath), res.pipe.
Response200 ==
    /\ pc = "requesting"
    /\ lastRes' = [statusCode |-> 200, statusMessage |-> "OK",
                   location |-> NoLocation]
    /\ pc' = "streaming"
    /\ fileStream' = "open"
    /\ destFile' = "partial"
    /\ UNCHANGED <<retryCount, currentUrl, pending, error, attempts, sleeps,
                   outcomes>>
    /\ UNCHANGED opVars
    /\ UNCHANGED runVars
    /\ UNCHANGED auxVars

\* The request emits 'error': .on("error", reject).  The handler stays
\* registered while the body is streamed, and it rejects without cleanup.
RequestError ==
    /\ pc \in {"requesting", "streaming"}
    /\ \E c \in RequestCodes : Reject(IoError("request", c, attempts))
    /\ UNCHANGED <<retryCount, currentUrl, lastRes, destFile, fileStream, pending,
                   attempts>>
    /\ UNCHANGED opVars
    /\ UNCHANGED runVars
    /\ UNCHANGED auxVars

cleanup_NoUnlink(e) ==
    /\ fileStream' = "destroyed"
    /\ Reject(e)
    /\ UNCHANGED <<destFile, lastRes, pending>>

\* cleanup(error): fileStream.destroy(); fs.unlink(destPath, () => reject(error))
cleanup(e) ==
    /\ fileStream' = "destroyed"
    /\ pending' = e
    /\ pc' = "unlinking"
    /\ UNCHANGED <<destFile, lastRes, error, sleeps, outcomes>>

\* res.on("error", cleanup)
ResError ==
    /\ pc = "streaming"
    /\ \E c \in ResCodes : cleanup(IoError("res", c, attempts))
    /\ UNCHANGED <<retryCount, currentUrl, attempts>>
    /\ UNCHANGED opVars
    /\ UNCHANGED runVars
    /\ UNCHANGED auxVars

\* fileStream.on("error", cleanup)
FileStreamError ==
    /\ pc = "streaming"
    /\ \E c \in FileStreamCodes : cleanup(IoError("fileStream", c, attempts))
    /\ UNCHANGED <<retryCount, currentUrl, attempts>>
    /\ UNCHANGED opVars
    /\ UNCHANGED runVars
    /\ UNCHANGED auxVars

\* fileStream.on("finish"): every byte is written; fileStream.close(cb)
FileStreamFinish ==
    /\ pc = "streaming"
    /\ pc' = "closing"
    /\ destFile' = "complete"
    /\ UNCHANGED <<retryCount, currentUrl, lastRes, fileStream, pending, error,
                   attempts, sleeps, outcomes>>
    /\ UNCHANGED opVars
    /\ UNCHANGED runVars
    /\ UNCHANGED auxVars

\* Callback of fileStream.close without an error: resolve()
CloseOk ==
    /\ pc = "closing"
    /\ pc' = "resolved"
    /\ fileStream' = "closed"
    /\ outcomes' = Append(outcomes, 200)
    /\ UNCHANGED <<retryCount, currentUrl, lastRes, destFile, pending, error,
                   attempts, sleeps>>
    /\ UNCHANGED opVars
    /\ UNCHANGED runVars
    /\ UNCHANGED auxVars

\* Callback of fileStream.close with an error: destroy, unlink, then reject
CloseError ==
    /\ pc = "closing"
    /\ \E c \in CloseCodes : cleanup(IoError("close", c, attempts))
    /\ UNCHANGED <<retryCount, currentUrl, attempts>>
    /\ UNCHANGED opVars
    /\ UNCHANGED runVars
    /\ UNCHANGED auxVars

\* Callback of fs.unlink(destPath, ...): the file is gone; reject(error)
UnlinkCallback ==
    /\ pc = "unlinking"
    /\ destFile' = "absent"
    /\ pending' = NoError
    /\ Reject(pending)
    /\ UNCHANGED <<retryCount, currentUrl, lastRes, fileStream, attempts>>
    /\ UNCHANGED opVars
    /\ UNCHANGED runVars
    /\ UNCHANGED auxVars

\* The retry goes to the URL of the last redirect.
SleepDone_FromLastUrl ==
    /\ pc = "sleeping"
    /\ retryCount' = retryCount + 1
    /\ attempts' = attempts + 1
    /\ request(currentUrl)
    /\ lastRes' = NoRes
    /\ fileStream' = "none"
    /\ UNCHANGED <<destFile, pending, error, sleeps, outcomes>>
    /\ UNCHANGED opVars
    /\ UNCHANGED runVars
    /\ UNCHANGED auxVars

\* The retry does not count.
SleepDone_KeepsCount ==
    /\ pc = "sleeping"
    /\ retryCount' = retryCount
    /\ attempts' = attempts + 1
    /\ request(downloadUrl)
    /\ lastRes' = NoRes
    /\ fileStream' = "none"
    /\ UNCHANGED <<destFile, pending, error, sleeps, outcomes>>
    /\ UNCHANGED opVars
    /\ UNCHANGED runVars
    /\ UNCHANGED auxVars

\* The timer of sleep(delay) fires: downloadWithRetry(retryCount + 1)
SleepDone ==
    /\ pc = "sleeping"
    /\ retryCount' = retryCount + 1
    /\ attempts' = attempts + 1
    /\ request(downloadUrl)
    /\ lastRes' = NoRes
    /\ fileStream' = "none"
    /\ UNCHANGED <<destFile, pending, error, sleeps, outcomes>>
    /\ UNCHANGED opVars
    /\ UNCHANGED runVars
    /\ UNCHANGED auxVars

----------------------------------------------------------------------------
(* The fetch-and-stage operation after the download *)

rmSync_KeepsScratch ==
    /\ tempDir' = tempDir
    /\ destFile' = destFile
    /\ extracted' = extracted

\* fs.rmSync(tempDir, { recursive: true, force: true }): the scratch
\* directory goes with the archive and the extraction tree in it.
rmSync ==
    /\ tempDir' = FALSE
    /\ destFile' = "absent"
    /\ extracted' = {}

Catch_Swallows(e) ==
    /\ rmSync
    /\ stage' = "Done"
    /\ opError' = opError

Catch_NoCleanup(e) ==
    /\ stage' = "Failed"
    /\ opError' = e
    /\ UNCHANGED <<tempDir, destFile, extracted>>

\* catch (error) { fs.rmSync(tempDir, ...); throw error; }
Catch(e) ==
    /\ rmSync
    /\ stage' = "Failed"
    /\ opError' = e

\* The frame of a settled downloadToFile call is dropped when the awaiting
\* operation resumes.
DropDownloadFrame ==
    /\ pc' = "idle"
    /\ retryCount' = 0
    /\ currentUrl' = downloadUrl
    /\ lastRes' = NoRes
    /\ fileStream' = "none"
    /\ pending' = NoError
    /\ error' = NoError
    /\ attempts' = 0
    /\ sleeps' = <<>>
    /\ outcomes' = <<>>

\* await downloadToFile(...) throws: the catch block runs.
DownloadRejected ==
    /\ stage = "Downloading"
    /\ pc = "rejected"
    /\ Catch(error)
    /\ DropDownloadFrame
    /\ UNCHANGED <<site, srcSubdir, exVars, sourceDir, destExists, dest>>
    /\ UNCHANGED runVars
    /\ UNCHANGED auxVars

\* await downloadToFile(...) returns: extractTarGz is called, creates
\* extractDir, builds its candidates from process.platform and spawns the
\* first one.
DownloadResolved ==
    /\ stage = "Downloading"
    /\ pc = "resolved"
    /\ stage' = "Extracting"
    /\ \E win32 \in BOOLEAN : candidates' = Candidates(site, win32)
    /\ candidate' = 1
    /\ lastError' = <<>>
    /\ DropDownloadFrame
    /\ UNCHANGED <<site, srcSubdir, tempDir, destFile, opError, fsVars>>
    /\ UNCHANGED runVars
    /\ UNCHANGED auxVars

\* The running candidate closes with code 0: extractTarGz returns.
ChildOk ==
    /\ stage = "Extracting"
    /\ \E a \in Archives :
         /\ archive \in {NoArchive, a}
         /\ extracted' = a
         /\ archive' = a
    /\ stage' = "LocatingPayload"
    /\ UNCHANGED <<site, srcSubdir, tempDir, destFile, opError, exVars, sourceDir,
                   destExists, dest>>
    /\ UNCHANGED dlFrame
    /\ UNCHANGED <<mainPc, calls, destBefore>>
    /\ UNCHANGED auxVars

\* The running candidate fails: the next one is spawned, or extractTarGz
\* throws after the last one.
ChildFails ==
    /\ stage = "Extracting"
    /\ \E f \in ChildFailures :
         lastError' = LastErrorMessage(candidates[candidate], f)
    /\ IF candidate < Len(candidates)
         THEN /\ candidate' = candidate + 1
              /\ UNCHANGED <<stage, tempDir, destFile, extracted, opError>>
         ELSE /\ candidate' = candidate
              /\ Catch(ExtractError(site, lastError'))
    /\ UNCHANGED <<site, srcSubdir, candidates, sourceDir, destExists, dest>>
    /\ UNCHANGED dlFrame
    /\ UNCHANGED runVars
    /\ UNCHANGED auxVars

\* destDir is created before the payload is located.
Locate_CreatesDest ==
    /\ stage = "LocatingPayload"
    /\ IF ChecksEmpty(site) /\ readdirSync(extracted, <<>>) = {}
         THEN /\ Catch(NoContentsError)
              /\ UNCHANGED sourceDir
         ELSE /\ sourceDir' = ResolveSourceDir(site, extracted, srcSubdir)
              /\ stage' = "Copying"
              /\ UNCHANGED <<tempDir, destFile, extracted, opError>>
    /\ destExists' = TRUE
    /\ UNCHANGED <<site, srcSubdir, exVars, dest>>
    /\ UNCHANGED dlFrame
    /\ UNCHANGED runVars
    /\ UNCHANGED auxVars

\* readdirSync(extractDir), the check for an empty extraction where the
\* script has one, and the resolution of sourceDir.
Locate ==
    /\ stage = "LocatingPayload"
    /\ IF ChecksEmpty(site) /\ readdirSync(extracted, <<>>) = {}
         THEN /\ Catch(NoContentsError)
              /\ UNCHANGED sourceDir
         ELSE /\ sourceDir' = ResolveSourceDir(site, extracted, srcSubdir)
              /\ stage' = "Copying"
              /\ UNCHANGED <<tempDir, destFile, extracted, opError>>
    /\ UNCHANGED <<site, srcSubdir, exVars, destExists, dest>>
    /\ UNCHANGED dlFrame
    /\ UNCHANGED runVars
    /\ UNCHANGED auxVars

\* The items of sourceDir whose copy throws because the destination holds
\* an entry of another kind at a path the copy writes: mkdirSync on a file
\* (EEXIST), copyFileSync onto a directory (EISDIR).
Conflicting(tree, src, d) ==
    {item \in readdirSync(tree, src) \ TopLevelSpecial(tree, src) :
        \E w \in CopyItem(tree, src, item), n \in d :
            n.path = w.path /\ n.kind # w.kind}

\* The items of sourceDir that the copy loop can copy into d.
Copyable(tree, src, d) ==
    (readdirSync(tree, src) \ TopLevelSpecial(tree, src)) \ Conflicting(tree, src, d)

\* What the copy loop writes for a set of items.
CopyItems(tree, src, items) == UNION {CopyItem(tree, src, item) : item \in items}

\* mkdirSync(destDir), readdirSync(sourceDir) and the whole copy loop run
\* without an error; the scratch directory is removed.
CopyAll ==
    /\ stage = "Copying"
    /\ isDirectory(extracted, sourceDir)
    /\ TopLevelSpecial(extracted, sourceDir) = {}
    /\ Conflicting(extracted, sourceDir, dest) = {}
    /\ destExists' = TRUE
    /\ dest' = Written(dest, CopyItems(extracted, sourceDir,
                                       readdirSync(extracted, sourceDir)))
    /\ rmSync
    /\ stage' = "Done"
    /\ UNCHANGED <<site, srcSubdir, opError, exVars, sourceDir>>
    /\ UNCHANGED dlFrame
    /\ UNCHANGED runVars
    /\ UNCHANGED auxVars

\* mkdirSync(destDir) throws.
MkdirDestFails ==
    /\ stage = "Copying"
    /\ Catch(FsError("EACCES"))
    /\ UNCHANGED <<site, srcSubdir, exVars, sourceDir, destExists, dest>>
    /\ UNCHANGED dlFrame
    /\ UNCHANGED runVars
    /\ UNCHANGED auxVars

\* readdirSync(sourceDir) throws because sourceDir is no directory.
ReaddirSourceFails ==
    /\ stage = "Copying"
    /\ ~isDirectory(extracted, sourceDir)
    /\ destExists' = TRUE
    /\ Catch(FsError("ENOTDIR"))
    /\ UNCHANGED <<site, srcSubdir, exVars, sourceDir, dest>>
    /\ UNCHANGED dlFrame
    /\ UNCHANGED runVars
    /\ UNCHANGED auxVars

\* A copy throws after some of the items were copied (readdirSync fixes no
\* order of the items).
CopyFails ==
    /\ stage = "Copying"
    /\ isDirectory(extracted, sourceDir)
    /\ readdirSync(extracted, sourceDir) # {}
    /\ \E done \in SUBSET Copyable(extracted, sourceDir, dest) :
         /\ done # readdirSync(extracted, sourceDir)
         /\ dest' = Written(dest, CopyItems(extracted, sourceDir, done))
    /\ destExists' = TRUE
    /\ Catch(FsError("EIO"))
    /\ UNCHANGED <<site, srcSubdir, exVars, sourceDir>>
    /\ UNCHANGED dlFrame
    /\ UNCHANGED runVars
    /\ UNCHANGED auxVars

\* The copy of an item throws because of the kind of an entry of destDir,
\* after some of the other items were copied.
CopyConflict ==
    /\ stage = "Copying"
    /\ isDirectory(extracted, sourceDir)
    /\ \E item \in Conflicting(extracted, sourceDir, dest) :
         Catch(FsError(IF isDirectory(extracted, Append(sourceDir, item))
                         THEN "EEXIST" ELSE "EISDIR"))
    /\ \E done \in SUBSET Copyable(extracted, sourceDir, dest) :
         dest' = Written(dest, CopyItems(extracted, sourceDir, done))
    /\ destExists' = TRUE
    /\ UNCHANGED <<site, srcSubdir, exVars, sourceDir>>
    /\ UNCHANGED dlFrame
    /\ UNCHANGED runVars
    /\ UNCHANGED auxVars

\* fs.copyFileSync is called on a FIFO directly under sourceDir: opening it
\* for reading blocks, and the synchronous call never returns.
CopyBlocks ==
    /\ stage = "Copying"
    /\ isDirectory(extracted, sourceDir)
    /\ \E item \in TopLevelSpecial(extracted, sourceDir) :
         KindAt(extracted, Append(sourceDir, item)) = "fifo"
    /\ \E done \in SUBSET Copyable(extracted, sourceDir, dest) :
         dest' = Written(dest, CopyItems(extracted, sourceDir, done))
    /\ destExists' = TRUE
    /\ stage' = "CopyingBlocked"
    /\ UNCHANGED <<site, srcSubdir, tempDir, destFile, extracted, opError, exVars,
                   sourceDir>>
    /\ UNCHANGED dlFrame
    /\ UNCHANGED runVars
    /\ UNCHANGED auxVars

Next ==
    \/ ClearLibs
    \/ Start
    \/ StartFails
    \/ ResponseRedirect
    \/ ResponseRedirectInvalidUrl
    \/ ResponseRedirectNoLocation
    \/ ResponseStatus
    \/ Response200
    \/ RequestError
    \/ ResError
    \/ FileStreamError
    \/ FileStreamFinish
    \/ CloseOk
    \/ CloseError
    \/ UnlinkCallback
    \/ SleepDone
    \/ DownloadRejected
    \/ DownloadResolved
    \/ ChildOk
    \/ ChildFails
    \/ Locate
    \/ CopyAll
    \/ MkdirDestFails
    \/ ReaddirSourceFails
    \/ CopyFails
    \/ CopyConflict
    \/ CopyBlocks

Spec == Init /\ [][Next]_vars

----------------------------------------------------------------------------
(* Repeated runs.  The generator and the standalone downloader never clear  *)
(* destDir, so a second run of the script with the same arguments against   *)
(* the same release copies onto what the first run left.  The server        *)
(* answers 200 at once in these runs; the download does not touch destDir.  *)

\* The number of runs of the script.
MaxCalls == 2

\* The script is run again after a run whose operation returned: the same
\* operation is called with the same arguments and the same release asset.
RunAgain ==
    /\ site \in {"generator", "downloader"}
    /\ stage = "Done"
    /\ calls < MaxCalls
    /\ stage' = "Pending"
    /\ destBefore' = [exists |-> destExists, tree |-> dest]
    /\ candidates' = <<>>
    /\ candidate' = 0
    /\ lastError' = <<>>
    /\ sourceDir' = <<>>
    /\ UNCHANGED <<site, srcSubdir, tempDir, opError, extracted, destExists,
                   dest, mainPc, calls, archive>>
    /\ UNCHANGED dlVars
    /\ UNCHANGED auxVars

NextRun ==
    \/ ClearLibs
    \/ Start
    \/ StartFails
    \/ Response200
    \/ FileStreamFinish
    \/ CloseOk
    \/ DownloadResolved
    \/ ChildOk
    \/ ChildFails
    \/ Locate
    \/ CopyAll
    \/ MkdirDestFails
    \/ ReaddirSourceFails
    \/ CopyFails
    \/ CopyConflict
    \/ CopyBlocks
    \/ RunAgain

RunSpec == Init /\ [][NextRun]_vars

\* Repeated runs in which requests can fail: with an error status, or with
\* an error of the request.
NextRetryRun ==
    \/ ClearLibs
    \/ Start
    \/ ResponseStatus
    \/ Response200
    \/ RequestError
    \/ FileStreamFinish
    \/ CloseOk
    \/ SleepDone
    \/ DownloadRejected
    \/ DownloadResolved
    \/ ChildOk
    \/ Locate
    \/ CopyAll
    \/ RunAgain

RetryRunSpec == Init /\ [][NextRetryRun]_vars

----------------------------------------------------------------------------
(* Whole runs of the three scripts: the checks before main, the loop over   *)
(* the artifacts, and the way the process ends.  In these runs the server   *)
(* answers a request with 200, or with a redirect that has no Location or   *)
(* whose Location is no absolute URL.                                       *)

\* The number of artifacts of the largest run.
MaxArtifacts == 2

\* Values of SKIP_SKIA_DOWNLOAD.
SkipValues == {"unset", "1", "true", "0", "TRUE"}

SkipRequested_AnyValue(v) == v # "unset"

\* process.env.SKIP_SKIA_DOWNLOAD === "1" || ... === "true"
SkipRequested(v) == v = "1" \/ v = "true"

\* pkg.skia.androidArchs[k].arch
ArchNames == <<"arm64-v8a", "x86_64", "x86">>

\* name.endsWith(suffix), for the names of the model.
endsWith(name, suffix) ==
    \/ suffix = ".a" /\ name \in {"libskia.a"}
    \/ suffix = ".xcframework" /\ name \in {"libskia.xcframework"}

\* The tree with every path put below the directory name.
Below(name, tree) ==
    {Node(<<name>>, "dir", "")} \cup
    {Node(<<name>> \o n.path, n.kind, n.data) : n \in tree}

\* No libs directory.
NoLibs == [exists |-> FALSE, tree |-> {}]

\* What the package directory holds under libs when the script starts.
InitialLibs ==
    {NoLibs,
     [exists |-> TRUE, tree |-> {}],
     [exists |-> TRUE, tree |-> OldDest],
     [exists |-> TRUE,
      tree |-> {Node(<<"libskia.xcframework">>, "dir", ""),
                Node(<<"libskia.xcframework", "Info.plist">>, "file", "plist")}],
     [exists |-> TRUE, tree |-> Below(ArchNames[1], SingleFileArchive)],
     [exists |-> TRUE,
      tree |-> Below(ArchNames[1], {Node(<<"README.md">>, "file", "readme")})
                 \cup Below(ArchNames[2], SingleFileArchive)],
     [exists |-> TRUE, tree |-> {Node(<<ArchNames[1]>>, "file", "old")}]}

\* androidArchs.some((arch) => ...) from the k-th architecture on: "true",
\* "false", or "throws" when readdirSync is called on a regular file.
RECURSIVE SomeArchInstalled(_, _, _)
SomeArchInstalled(tree, k, n) ==
    IF k > n THEN "false"
    ELSE LET archDir == <<ArchNames[k]>>
         IN  IF ~existsSync(tree, archDir)
               THEN SomeArchInstalled(tree, k + 1, n)
               ELSE IF ~isDirectory(tree, archDir) THEN "throws"
               ELSE IF \E f \in readdirSync(tree, archDir) : endsWith(f, ".a")
                      THEN "true"
                      ELSE SomeArchInstalled(tree, k + 1, n)

isInstalled_Never(p, l, n) == "false"

\* isInstalled() of the post-install script, for the platform p, the libs
\* directory l and n Android architectures.
isInstalled(p, l, n) ==
    IF ~l.exists THEN "false"
    ELSE LET entries == readdirSync(l.tree, <<>>)
         IN  IF entries = {} THEN "false"
             ELSE IF p = "android" THEN SomeArchInstalled(l.tree, 1, n)
             ELSE IF p = "apple"
                    THEN IF \E en \in entries : endsWith(en, ".xcframework")
                           THEN "true" ELSE "false"
             ELSE "true"

\* The state when a script is started.  The post-install script starts at
\* its checks; only an Android package has several artifacts, and their
\* destination directories lie in libs.
BatchInit ==
    /\ OpIdle
    /\ artifacts \in 1..MaxArtifacts
    /\ IF site = "postinstall"
         THEN /\ platform \in Platforms
              /\ platform # "android" => artifacts = 1
              /\ libs \in InitialLibs
              /\ DestIs(IF platform = "android" THEN NoLibs ELSE libs)
              /\ libsDir = libs.exists
         ELSE /\ platform = "none"
              /\ libs = NoLibs
              /\ \E d \in InitialDests(site) : DestIs(d)
              /\ libsDir = FALSE
    /\ run = 1
    /\ mainPc = IF site = "postinstall" THEN "start" ELSE "looping"
    /\ skipEnv \in (IF site = "postinstall" THEN SkipValues ELSE {"unset"})
    /\ artifact = 1
    /\ installed = <<>>
    /\ exitStatus = Running
    /\ skiaVersion = DefaultVersion
    /\ npmVersion = NotDerived
    /\ ConcIdle
    /\ GenIdle(CreatedAtLoop)
    /\ ToolsIdle

\* The post-install script reads SKIP_SKIA_DOWNLOAD first and exits with
\* status 0 when it is "1" or "true".
SkipCheck ==
    /\ mainPc = "start"
    /\ IF SkipRequested(skipEnv)
         THEN /\ mainPc' = "exited"
              /\ exitStatus' = 0
         ELSE /\ mainPc' = "checking"
              /\ exitStatus' = exitStatus
    /\ UNCHANGED <<skipEnv, artifacts, artifact, installed, libsDir>>
    /\ UNCHANGED versionVars
    /\ UNCHANGED pkgVars
    /\ UNCHANGED concVars
    /\ UNCHANGED genVars
    /\ UNCHANGED toolVars
    /\ UNCHANGED <<calls, archive, destBefore>>
    /\ UNCHANGED opVars
    /\ UNCHANGED dlVars

\* isInstalled() returns true: the script exits with status 0.
Installed ==
    /\ mainPc = "checking"
    /\ isInstalled(platform, libs, artifacts) = "true"
    /\ mainPc' = "exited"
    /\ exitStatus' = 0
    /\ UNCHANGED <<skipEnv, artifacts, artifact, installed, libsDir>>
    /\ UNCHANGED <<calls, archive, destBefore>>
    /\ UNCHANGED opVars
    /\ UNCHANGED dlVars
    /\ UNCHANGED versionVars
    /\ UNCHANGED concVars
    /\ UNCHANGED genVars
    /\ UNCHANGED toolVars
    /\ UNCHANGED pkgVars

\* isInstalled() throws at the top level of the module: the process ends
\* with status 1.
InstalledThrows ==
    /\ mainPc = "checking"
    /\ isInstalled(platform, libs, artifacts) = "throws"
    /\ mainPc' = "exited"
    /\ exitStatus' = 1
    /\ UNCHANGED <<skipEnv, artifacts, artifact, installed, libsDir>>
    /\ UNCHANGED <<calls, archive, destBefore>>
    /\ UNCHANGED opVars
    /\ UNCHANGED dlVars
    /\ UNCHANGED versionVars
    /\ UNCHANGED concVars
    /\ UNCHANGED genVars
    /\ UNCHANGED toolVars
    /\ UNCHANGED pkgVars

\* isInstalled() returns false: main is called.
NotInstalled ==
    /\ mainPc = "checking"
    /\ isInstalled(platform, libs, artifacts) = "false"
    /\ mainPc' = "clearing"
    /\ UNCHANGED <<calls, archive, destBefore>>
    /\ UNCHANGED opVars
    /\ UNCHANGED dlVars
    /\ UNCHANGED auxVars

\* The loop calls the next operation without awaiting the one before.
NextArtifact_NoAwait ==
    /\ mainPc = "looping"
    /\ artifact < artifacts
    /\ artifact' = artifact + 1
    /\ installed' = Append(installed, dest)
    /\ stage' = "Pending"
    /\ \E d \in InitialDests(site) :
         /\ ~d.exists
         /\ destExists' = d.exists
         /\ dest' = d.tree
         /\ destBefore' = d
    /\ srcSubdir' \in SrcSubdirs
    /\ archive' = NoArchive
    /\ candidates' = <<>>
    /\ candidate' = 0
    /\ lastError' = <<>>
    /\ sourceDir' = <<>>
    /\ UNCHANGED <<site, tempDir, opError, extracted, mainPc, calls>>
    /\ UNCHANGED <<skipEnv, artifacts, libsDir, exitStatus>>
    /\ UNCHANGED versionVars
    /\ UNCHANGED pkgVars
    /\ UNCHANGED concVars
    /\ UNCHANGED genVars
    /\ UNCHANGED toolVars
    /\ UNCHANGED dlVars

\* The awaited operation has returned and the loop has a further artifact:
\* its operation is called, with its own srcSubdir and its own destination
\* directory, which in the runs of this model does not exist yet.
NextArtifact ==
    /\ mainPc = "looping"
    /\ stage = "Done"
    /\ artifact < artifacts
    /\ artifact' = artifact + 1
    /\ installed' = Append(installed, dest)
    /\ stage' = "Pending"
    /\ \E d \in InitialDests(site) :
         /\ ~d.exists
         /\ destExists' = d.exists
         /\ dest' = d.tree
         /\ destBefore' = d
    /\ srcSubdir' \in SrcSubdirs
    /\ archive' = NoArchive
    /\ candidates' = <<>>
    /\ candidate' = 0
    /\ lastError' = <<>>
    /\ sourceDir' = <<>>
    /\ UNCHANGED <<site, tempDir, opError, extracted, mainPc, calls>>
    /\ UNCHANGED <<skipEnv, artifacts, libsDir, exitStatus>>
    /\ UNCHANGED versionVars
    /\ UNCHANGED pkgVars
    /\ UNCHANGED concVars
    /\ UNCHANGED genVars
    /\ UNCHANGED toolVars
    /\ UNCHANGED dlVars

\* package.json and README.md are written before the loop over the
\* artifacts.
WritePackageFiles_BeforeLoop ==
    /\ site = "generator"
    /\ mainPc = "looping"
    /\ section \notin packageJson
    /\ packageJson' = packageJson \cup {section}
    /\ UNCHANGED <<mode, section, graphiteVersion, pkgDirs>>
    /\ UNCHANGED toolVars
    /\ UNCHANGED <<batchVars, versionVars, concVars, pkgVars>>
    /\ UNCHANGED runVars
    /\ UNCHANGED opVars
    /\ UNCHANGED dlVars

\* generatePackage after its loop: package.json and README.md are written.
WritePackageFiles ==
    /\ site = "generator"
    /\ mainPc = "looping"
    /\ stage = "Done"
    /\ artifact = artifacts
    /\ section \notin packageJson
    /\ packageJson' = packageJson \cup {section}
    /\ UNCHANGED <<mode, section, graphiteVersion, pkgDirs>>
    /\ UNCHANGED toolVars
    /\ UNCHANGED <<batchVars, versionVars, concVars, pkgVars>>
    /\ UNCHANGED runVars
    /\ UNCHANGED opVars
    /\ UNCHANGED dlVars

\* The operation of the last artifact has returned: main returns and the
\* process ends with status 0.
MainReturns ==
    /\ mainPc = "looping"
    /\ stage = "Done"
    /\ artifact = artifacts
    /\ site = "generator" =>
         /\ section \in packageJson
         /\ mode = "config" => section = "graphite"
    /\ mainPc' = "exited"
    /\ exitStatus' = 0
    /\ UNCHANGED <<skipEnv, artifacts, artifact, installed, libsDir>>
    /\ UNCHANGED versionVars
    /\ UNCHANGED pkgVars
    /\ UNCHANGED concVars
    /\ UNCHANGED genVars
    /\ UNCHANGED toolVars
    /\ UNCHANGED <<calls, archive, destBefore>>
    /\ UNCHANGED opVars
    /\ UNCHANGED dlVars

\* Every caller removes what the run has written.
MainCatch_RollsBack ==
    /\ mainPc = "looping"
    /\ stage = "Failed"
    /\ mainPc' = "exited"
    /\ exitStatus' = 1
    /\ libsDir' = FALSE
    /\ installed' = <<>>
    /\ destExists' = FALSE
    /\ dest' = {}
    /\ UNCHANGED <<skipEnv, artifacts, artifact>>
    /\ UNCHANGED versionVars
    /\ UNCHANGED pkgVars
    /\ UNCHANGED concVars
    /\ UNCHANGED genVars
    /\ UNCHANGED toolVars
    /\ UNCHANGED <<calls, archive, destBefore>>
    /\ UNCHANGED <<site, srcSubdir, stage, tempDir, opError, exVars, extracted,
                   sourceDir>>
    /\ UNCHANGED dlVars

\* The awaited operation has thrown: the catch block of the caller runs.
\* The post-install script removes libs; every script exits with status 1.
MainCatch ==
    /\ mainPc = "looping"
    /\ stage = "Failed"
    /\ mainPc' = "exited"
    /\ exitStatus' = 1
    /\ IF site = "postinstall"
         THEN /\ libsDir' = FALSE
              /\ installed' = <<>>
              /\ destExists' = FALSE
              /\ dest' = {}
         ELSE UNCHANGED <<libsDir, installed, destExists, dest>>
    /\ UNCHANGED <<skipEnv, artifacts, artifact>>
    /\ UNCHANGED versionVars
    /\ UNCHANGED pkgVars
    /\ UNCHANGED concVars
    /\ UNCHANGED genVars
    /\ UNCHANGED toolVars
    /\ UNCHANGED <<calls, archive, destBefore>>
    /\ UNCHANGED <<site, srcSubdir, stage, tempDir, opError, exVars, extracted,
                   sourceDir>>
    /\ UNCHANGED dlVars

\* The exception thrown in the response callback is caught by nothing: Node
\* prints it and the process ends with status 1, no catch block having run.
UncaughtException ==
    /\ pc = "crashed"
    /\ mainPc = "looping"
    /\ mainPc' = "exited"
    /\ exitStatus' = 1
    /\ UNCHANGED <<skipEnv, artifacts, artifact, installed, libsDir>>
    /\ UNCHANGED versionVars
    /\ UNCHANGED pkgVars
    /\ UNCHANGED concVars
    /\ UNCHANGED genVars
    /\ UNCHANGED toolVars
    /\ UNCHANGED <<calls, archive, destBefore>>
    /\ UNCHANGED opVars
    /\ UNCHANGED dlVars

NextBatch ==
    \/ SkipCheck
    \/ Installed
    \/ InstalledThrows
    \/ NotInstalled
    \/ ClearLibs
    \/ Start
    \/ StartFails
    \/ ResponseRedirectInvalidUrl
    \/ ResponseRedirectNoLocation
    \/ Response200
    \/ FileStreamFinish
    \/ CloseOk
    \/ DownloadRejected
    \/ DownloadResolved
    \/ ChildOk
    \/ ChildFails
    \/ Locate
    \/ CopyAll
    \/ MkdirDestFails
    \/ ReaddirSourceFails
    \/ CopyFails
    \/ CopyConflict
    \/ CopyBlocks
    \/ NextArtifact
    \/ WritePackageFiles
    \/ MainReturns
    \/ MainCatch
    \/ UncaughtException

BatchSpec == BatchInit /\ [][NextBatch]_vars

----------------------------------------------------------------------------
(* The post-install script run again after a run that failed in main *)

\* The number of runs of the script.
MaxRuns == 2

\* What libs holds, from the destination directories of the run: libs
\* itself for a single asset, libs/<arch> for every Android architecture
\* whose operation has created its directory.
CurrentLibs ==
    IF ~libsDir THEN NoLibs
    ELSE [exists |-> TRUE,
          tree |-> IF platform # "android" THEN dest
                   ELSE UNION {Below(ArchNames[k], installed[k]) :
                                 k \in 1..Len(installed)}
                        \cup (IF destExists
                                THEN Below(ArchNames[artifact], dest)
                                ELSE {})]

\* The package manager runs the script again after a run in which main was
\* called and the process ended with status 1.
RunScriptAgain ==
    /\ site = "postinstall"
    /\ mainPc = "exited"
    /\ exitStatus = 1
    /\ stage # "Pending"
    /\ run < MaxRuns
    /\ run' = run + 1
    /\ mainPc' = "start"
    /\ exitStatus' = Running
    /\ libs' = CurrentLibs
    /\ LET d == IF platform = "android" THEN NoLibs ELSE CurrentLibs
       IN  /\ destExists' = d.exists
           /\ dest' = d.tree
           /\ destBefore' = d
    /\ stage' = "Pending"
    /\ tempDir' = FALSE
    /\ opError' = NoError
    /\ candidates' = <<>>
    /\ candidate' = 0
    /\ lastError' = <<>>
    /\ extracted' = {}
    /\ sourceDir' = <<>>
    /\ DropDownloadFrame
    /\ destFile' = "absent"
    /\ calls' = 0
    /\ archive' = NoArchive
    /\ artifact' = 1
    /\ installed' = <<>>
    /\ UNCHANGED <<site, srcSubdir, skipEnv, artifacts, libsDir, platform>>
    /\ UNCHANGED versionVars
    /\ UNCHANGED concVars
    /\ UNCHANGED genVars
    /\ UNCHANGED toolVars

RerunInit ==
    /\ BatchInit
    /\ site = "postinstall"

NextRerun ==
    \/ SkipCheck
    \/ Installed
    \/ InstalledThrows
    \/ NotInstalled
    \/ ClearLibs
    \/ Start
    \/ StartFails
    \/ ResponseRedirectInvalidUrl
    \/ ResponseRedirectNoLocation
    \/ Response200
    \/ FileStreamFinish
    \/ CloseOk
    \/ DownloadRejected
    \/ DownloadResolved
    \/ ChildOk
    \/ ChildFails
    \/ Locate
    \/ CopyAll
    \/ MkdirDestFails
    \/ CopyFails
    \/ CopyBlocks
    \/ NextArtifact
    \/ MainReturns
    \/ MainCatch
    \/ UncaughtException
    \/ RunScriptAgain

RerunSpec == RerunInit /\ [][NextRerun]_vars

----------------------------------------------------------------------------
(* deriveNpmVersion of the package generator.  Strings are sequences of     *)
(* one-character strings.                                                   *)

\* The longest --skia-version argument of the runs.
MaxVersionLen == 4

\* The characters the arguments are made of.
VersionChars == {"m", "M", "0", "1", "4", "a", "c", "z", "C", "."}

Digits == <<"0", "1", "2", "3", "4", "5", "6", "7", "8", "9">>

LowerCase == <<"a", "b", "c", "d", "e", "f", "g", "h", "i", "j", "k", "l", "m",
               "n", "o", "p", "q", "r", "s", "t", "u", "v", "w", "x", "y", "z">>

IsDigit(c) == \E i \in DOMAIN Digits : Digits[i] = c

IsLowerCase(c) == \E i \in DOMAIN LowerCase : LowerCase[i] = c

\* c.charCodeAt(0) for a lowercase letter: "a" is 97.
charCodeAt(c) == 96 + CHOOSE i \in DOMAIN LowerCase : LowerCase[i] = c

\* String(n) for a natural number, as template literals format it.
RECURSIVE NumberToString(_)
NumberToString(n) ==
    IF n < 10 THEN <<Digits[n + 1]>>
    ELSE NumberToString(n \div 10) \o <<Digits[(n % 10) + 1]>>

\* The end of the longest run of digits of s that starts at position from
\* (from - 1 when there is none): the greedy \d+ of the pattern.
RECURSIVE DigitsEnd(_, _)
DigitsEnd(s, from) ==
    IF from <= Len(s) /\ IsDigit(s[from]) THEN DigitsEnd(s, from + 1)
    ELSE from - 1

\* skiaVersion.match(/^m(\d+)([a-z])?$/): the groups of the match, or
\* matched = FALSE.  Giving back digits of the greedy run cannot produce a
\* match, since the character after a shorter run is a digit.
Match(s) ==
    LET e == DigitsEnd(s, 2)
        rest == SubSeq(s, e + 1, Len(s))
    IN  IF /\ Len(s) >= 2
           /\ s[1] = "m"
           /\ e >= 2
           /\ \/ rest = <<>>
              \/ Len(rest) = 1 /\ IsLowerCase(rest[1])
          THEN [matched |-> TRUE, major |-> SubSeq(s, 2, e), suffix |-> rest]
          ELSE [matched |-> FALSE, major |-> <<>>, suffix |-> <<>>]

minor_ZeroBased(suffix) ==
    IF suffix # <<>> THEN charCodeAt(suffix[1]) - charCodeAt("a") ELSE 0

\* suffix ? suffix.charCodeAt(0) - "a".charCodeAt(0) + 1 : 0
minor(suffix) ==
    IF suffix # <<>> THEN charCodeAt(suffix[1]) - charCodeAt("a") + 1 ELSE 0

\* The value deriveNpmVersion returns, or the error it throws.
deriveNpmVersion(s) ==
    LET match == Match(s)
    IN  IF ~match.matched
          THEN [kind |-> "error", text |-> <<>>]
          ELSE [kind |-> "value",
                text |-> match.major \o <<".">> \o
                         NumberToString(minor(match.suffix)) \o <<".", "0">>]

\* All strings over VersionChars of length at most n.
RECURSIVE StringsUpTo(_)
StringsUpTo(n) ==
    IF n = 0 THEN {<<>>}
    ELSE LET shorter == StringsUpTo(n - 1)
         IN  shorter \cup {Append(s, c) : s \in shorter, c \in VersionChars}

\* The generator is started with a --skia-version argument and without
\* --npm-version.
VersionInit ==
    /\ OpInit
    /\ site = "generator"
    /\ ~destExists
    /\ MainInit
    /\ skiaVersion \in StringsUpTo(MaxVersionLen)
    /\ npmVersion = NotDerived
    /\ ConcIdle
    /\ GenIdle({})
    /\ ToolsIdle

\* main of the generator calls deriveNpmVersion; an error ends the process
\* with status 1.
DeriveNpmVersion ==
    /\ site = "generator"
    /\ npmVersion = NotDerived
    /\ calls = 0
    /\ npmVersion' = deriveNpmVersion(skiaVersion)
    /\ IF npmVersion'.kind = "error"
         THEN /\ mainPc' = "exited"
              /\ exitStatus' = 1
         ELSE UNCHANGED <<mainPc, exitStatus>>
    /\ UNCHANGED <<skipEnv, artifacts, artifact, installed, libsDir>>
    /\ UNCHANGED <<calls, archive, destBefore>>
    /\ UNCHANGED skiaVersion
    /\ UNCHANGED pkgVars
    /\ UNCHANGED concVars
    /\ UNCHANGED genVars
    /\ UNCHANGED toolVars
    /\ UNCHANGED opVars
    /\ UNCHANGED dlVars

NextVersion == DeriveNpmVersion

VersionSpec == VersionInit /\ [][NextVersion]_vars

----------------------------------------------------------------------------
(* Properties *)

\* The failure classes the retry policy names: status 403, a message that
\* contains "rate limit", code ECONNRESET or ETIMEDOUT.
Transient(e) ==
    \/ e.statusCode = 403
    \/ MessageIncludesRateLimit(e.message)
    \/ e.code \in {"ECONNRESET", "ETIMEDOUT"}

Forbidden(k) == [i \in 1..k |-> 403]

RECURSIVE SumSeq(_)
SumSeq(q) == IF q = <<>> THEN 0 ELSE Head(q) + SumSeq(Tail(q))

\* C1: a failed attempt is followed by a sleep or by another attempt only if
\* its error is of a transient class; after any other error downloadToFile
\* is rejected with that error, that attempt is the last one and no sleep
\* follows it.
C1_RetryOnlyTransient ==
    /\ (error # NoError /\ (pc = "sleeping" \/ attempts > error.attempt))
          => Transient(error)
    /\ (error # NoError /\ ~Transient(error))
          => /\ pc = "rejected"
             /\ error.attempt = attempts
             /\ Len(sleeps) = attempts - 1

C1_Witness ==
    /\ pc = "rejected"
    /\ error.statusCode = 404
    /\ attempts = 2
    /\ sleeps = <<1000>>

\* C2 as stated: one downloadToFile call makes at most maxRetries attempts.
C2_AtMostMaxRetriesAttempts == attempts <= maxRetries

\* C2 as amended: one downloadToFile call makes at most maxRetries retries,
\* that is at most maxRetries + 1 attempts.
C2_AtMostMaxRetriesPlusOneAttempts ==
    /\ attempts <= maxRetries + 1
    /\ retryCount <= maxRetries
    /\ Len(sleeps) <= maxRetries

C2_Witness == attempts = maxRetries + 1 /\ retryCount = maxRetries

\* C3: with 403 on the first four attempts downloadToFile keeps going, and
\* when the fifth attempt answers 200 it has succeeded after exactly five
\* attempts and slept 1, 2, 4 and 8 seconds, 15 seconds in all.
C3_FourForbiddenThenOk ==
    /\ (Len(outcomes) <= 4 /\ outcomes = Forbidden(Len(outcomes)))
          => pc # "rejected"
    /\ (outcomes = Forbidden(4) \o <<200>>)
          => /\ pc = "resolved"
             /\ attempts = 5
             /\ sleeps = <<1000, 2000, 4000, 8000>>
             /\ SumSeq(sleeps) = 15000

C3_Witness == outcomes = Forbidden(4) \o <<200>> /\ pc = "resolved"

\* C4: when every attempt answers 403, downloadToFile makes no more than
\* maxRetries + 1 = 6 attempts, is rejected after the sixth, and the error
\* it is rejected with is the 403 error of the last attempt.
C4_AllForbiddenFails ==
    (outcomes # <<>> /\ outcomes = Forbidden(Len(outcomes)))
       => /\ attempts <= 6
          /\ Len(outcomes) = 6 => pc = "rejected"
          /\ pc = "rejected" => /\ error.statusCode = 403
                                /\ error.attempt = attempts
                                /\ attempts = Len(outcomes)

C4_Witness == pc = "rejected" /\ outcomes = Forbidden(6)

\* C5 as stated: a response with a status that is not 200, not a redirect
\* and not 403 ends downloadToFile at once: it is rejected with an error
\* that carries the status, no attempt and no sleep follow.
C5_OtherStatusFailsAtOnce ==
    (lastRes.statusCode \notin ({0, 200, 403} \cup RedirectStatuses))
       => /\ pc = "rejected"
          /\ error.statusCode = lastRes.statusCode
          /\ error.attempt = attempts
          /\ Len(sleeps) = attempts - 1

\* C5 as amended: the same, for a response whose status message does not
\* contain "rate limit".
C5_OtherStatusWithoutRateLimitFailsAtOnce ==
    (/\ lastRes.statusCode \notin ({0, 200, 403} \cup RedirectStatuses)
     /\ lastRes.statusMessage \notin RateLimitTexts)
       => /\ pc = "rejected"
          /\ error.statusCode = lastRes.statusCode
          /\ error.attempt = attempts
          /\ Len(sleeps) = attempts - 1

C5_Witness ==
    /\ pc = "rejected"
    /\ lastRes.statusCode = 404
    /\ attempts = 1
    /\ sleeps = <<>>

\* C6: the k-th sleep of one downloadToFile call (k counted from 0) lasts
\* 2^k seconds, so each sleep is twice the one before it.
C6_BackoffDoubles ==
    \A i \in 1..Len(sleeps) :
        /\ sleeps[i] = (2 ^ (i - 1)) * 1000
        /\ i > 1 => sleeps[i] = 2 * sleeps[i - 1]

C6_Witness == sleeps = <<1000, 2000, 4000, 8000, 16000>>

\* C7 as stated: the response callback that receives a redirect status with
\* a Location header, whatever its value, issues a request to the Location
\* URL and leaves the attempt running: the attempt count, the retry count,
\* the sleeps and the log of finished attempts do not change, no error is
\* raised.
C7_RedirectFollowedInAttempt ==
    [][(/\ pc = "requesting"
        /\ lastRes' # lastRes
        /\ lastRes'.statusCode \in RedirectStatuses
        /\ lastRes'.location # NoLocation)
          => /\ pc' = "requesting"
             /\ currentUrl' = lastRes'.location
             /\ attempts' = attempts
             /\ retryCount' = retryCount
             /\ sleeps' = sleeps
             /\ outcomes' = outcomes
             /\ error' = error]_vars

\* C8 as stated: a redirect status without a Location header ends
\* downloadToFile at once, whatever the retry count: it is rejected with the
\* redirect error, no attempt and no sleep follow.
C8_RedirectWithoutLocationIsPermanent ==
    (lastRes.statusCode \in RedirectStatuses /\ lastRes.location = NoLocation)
       => /\ pc = "rejected"
          /\ error.kind = "redirect"
          /\ error.attempt = attempts
          /\ Len(sleeps) = attempts - 1

\* C9: when an attempt that was writing the body ends in an error of the
\* response stream or of the file stream (its close included), the file at
\* destPath is gone by the time the failure is caught; when downloadToFile
\* has resolved, the file is there, complete, and its stream is closed.
C9_NoPartialFile ==
    /\ (/\ pc \in {"sleeping", "rejected"}
        /\ error.attempt = attempts
        /\ error.source \in {"res", "fileStream", "close"})
          => destFile = "absent"
    /\ pc = "resolved" => (destFile = "complete" /\ fileStream = "closed")

C9_Witness ==
    /\ pc = "rejected"
    /\ error.source = "fileStream"
    /\ destFile = "absent"

\* C10: once the fetch-and-stage operation has returned or thrown, the
\* scratch directory does not exist, nor anything that was in it.
C10_NoScratchOutlivesOperation ==
    stage \in {"Done", "Failed"}
       => (~tempDir /\ destFile = "absent" /\ extracted = {})

C10_Witness ==
    /\ stage = "Failed"
    /\ opError.kind = "fs"
    /\ opError.code = "EIO"
    /\ dest # {}
    /\ ~tempDir

\* The stage a position of the operation belongs to: a copy loop that is
\* blocked in copyFileSync is still copying.
StageOf(s) == IF s = "CopyingBlocked" THEN "Copying" ELSE s

StageSteps ==
    {<<"Pending", "Downloading">>, <<"Downloading", "Extracting">>,
     <<"Extracting", "LocatingPayload">>, <<"LocatingPayload", "Copying">>,
     <<"Copying", "Done">>} \cup
    {<<s, "Failed">> : s \in {"Pending", "Downloading", "Extracting",
                              "LocatingPayload", "Copying"}}

\* C11: the operation changes stage only along Pending, Downloading,
\* Extracting, LocatingPayload, Copying, Done, or from one of the first five
\* to Failed; extraction starts only from a download that resolved with the
\* complete archive, copying only from a resolved payload root; Done and
\* Failed are never left; the scratch directory is gone on entry to Done or
\* Failed.
C11_StageOrder ==
    [][/\ StageOf(stage') # StageOf(stage)
            => <<StageOf(stage), StageOf(stage')>> \in StageSteps
       /\ (stage # "Extracting" /\ stage' = "Extracting")
            => (pc = "resolved" /\ destFile = "complete")
       /\ (stage # "Copying" /\ stage' = "Copying")
            => sourceDir' = ResolveSourceDir(site, extracted, srcSubdir)
       /\ stage \in {"Done", "Failed"} => stage' = stage
       /\ stage' \in {"Done", "Failed"} => ~tempDir']_vars

C11_Witness ==
    /\ stage = "Failed"
    /\ opError = NoContentsError
    /\ ~tempDir

\* The regular files and directories below src, with their paths relative
\* to src: what a complete copy of the payload root puts under destDir.
Payload(tree, src) ==
    {Node(SubSeq(n.path, Len(src) + 1, Len(n.path)), n.kind, n.data) :
        n \in {m \in tree : /\ IsPrefix(src, m.path)
                            /\ Len(m.path) > Len(src)
                            /\ m.kind \notin SpecialKinds}}

\* C12 as stated: whenever the operation has returned successfully, destDir
\* holds at least one entry and every file and directory of the payload
\* root of the archive.
C12_NeverEmptySuccess ==
    stage = "Done"
       => /\ dest # {}
          /\ Payload(archive, sourceDir) \subseteq dest

\* C13 as stated: at every call site, the payload location of an extraction
\* directory without entries throws "Archive extracted but no contents
\* found" and leaves destDir as it was, not created.
C13_EmptyExtractionFails ==
    [][(stage = "LocatingPayload" /\ readdirSync(extracted, <<>>) = {})
          => /\ stage' = "Failed"
             /\ opError' = NoContentsError
             /\ dest' = dest
             /\ destExists' = destExists]_vars

\* The extraction directory holds one top-level entry and it is a directory.
SingleWrapper(tree) ==
    /\ Cardinality(readdirSync(tree, <<>>)) = 1
    /\ \A n \in readdirSync(tree, <<>>) : isDirectory(tree, <<n>>)

\* C14: once the payload root is resolved, it lies in the single top-level
\* entry of the extraction directory if and only if that directory has
\* exactly one top-level entry and the entry is a directory; otherwise it is
\* the extraction directory itself.  The collapse is applied once: below the
\* wrapper the root descends at most into srcSubdir, never into a further
\* single directory.
C14_WrapperCollapse ==
    stage \in {"Copying", "CopyingBlocked"}
       => /\ SingleWrapper(extracted) <=> sourceDir # <<>>
          /\ sourceDir # <<>> => sourceDir[1] \in readdirSync(extracted, <<>>)
          /\ Len(sourceDir) <= 2
          /\ Len(sourceDir) = 2 => (srcSubdir # "" /\ sourceDir[2] = srcSubdir)

\* wrapper/inner/libskia.a: the root is wrapper, not wrapper/inner.
C14_Witness ==
    /\ stage = "Copying"
    /\ extracted = NestedArchive
    /\ sourceDir = <<"wrapper">>

\* The root after the wrapper collapse alone.
CollapsedRoot(tree) ==
    IF SingleWrapper(tree)
      THEN <<CHOOSE n \in readdirSync(tree, <<>>) : TRUE>>
      ELSE <<>>

\* C15 as stated: when srcSubdir is given and names a directory directly
\* under the root left by the wrapper collapse (the wrapper, or the
\* extraction directory when nothing was collapsed), the payload root is
\* that directory.
C15_SubdirDescent ==
    (/\ stage \in {"Copying", "CopyingBlocked"}
     /\ srcSubdir # ""
     /\ isDirectory(extracted, Append(CollapsedRoot(extracted), srcSubdir)))
       => sourceDir = Append(CollapsedRoot(extracted), srcSubdir)

\* destDir held no entry when the operation was called (main of the
\* post-install script has cleared libs before its first call).
EmptyWhenCalled == site = "postinstall" \/ destBefore.tree = {}

\* C16: for an archive wrapper/<sub>/<entries> and srcSubdir = <sub>, a
\* successful operation on an empty destination leaves exactly <entries> as
\* the top-level entries of destDir, and no path under destDir has the
\* wrapper's name or <sub> as a component.
C16_OnlyEntriesOfSubdir ==
    (/\ stage = "Done"
     /\ EmptyWhenCalled
     /\ SingleWrapper(archive)
     /\ srcSubdir # ""
     /\ isDirectory(archive, Append(CollapsedRoot(archive), srcSubdir)))
       => /\ readdirSync(dest, <<>>)
               = readdirSync(archive, Append(CollapsedRoot(archive), srcSubdir))
          /\ \A n \in dest : \A i \in 1..Len(n.path) :
                n.path[i] \notin {CollapsedRoot(archive)[1], srcSubdir}

C16_Witness ==
    /\ stage = "Done"
    /\ srcSubdir = "ios"
    /\ archive = WrappedArchive
    /\ dest = Payload(WrappedArchive, <<"wrapper", "ios">>)

\* The payload root holds a special file, at any depth.
HasSpecial(tree, src) ==
    \E n \in tree : IsPrefix(src, n.path) /\ n.kind \in SpecialKinds

\* C17 as stated: a copy loop over a payload root that holds a special file
\* at any depth, and that no error interrupts, ends with the regular files
\* and directories of the payload copied and the operation returning.
C17_SpecialFilesSkipped ==
    [][(/\ stage = "Copying"
        /\ stage' # "Copying"
        /\ opError' = NoError
        /\ HasSpecial(extracted, sourceDir))
          => /\ stage' = "Done"
             /\ dest' = Written(dest, Payload(extracted, sourceDir))]_vars

\* C18: when an operation of the post-install script has returned
\* successfully, destDir holds exactly the files and directories of the
\* resolved payload root: nothing that was in libs before the run is left.
C18_PostinstallExactPayload ==
    (site = "postinstall" /\ stage = "Done")
       => dest = Payload(archive, sourceDir)

C18_Witness ==
    /\ site = "postinstall"
    /\ stage = "Done"
    /\ destBefore.tree = OldDest
    /\ archive = WrappedArchive
    /\ dest = Payload(WrappedArchive, <<"wrapper", "ios">>)

\* The payload the operation copies from the archive of this run, known
\* once the archive is extracted.
RunPayload ==
    IF archive = NoArchive THEN {}
    ELSE Payload(archive, ResolveSourceDir(site, archive, srcSubdir))

\* C19: in the generator and the standalone downloader, at every moment of
\* an operation, whether it succeeds or fails: destDir is never removed,
\* every path that was in destDir is still there, every entry whose path
\* does not occur in the payload is unchanged, and after a successful return
\* every file of the payload is in destDir with the payload's content.
C19_AdditiveCopy ==
    site \in {"generator", "downloader"}
       => /\ destBefore.exists => destExists
          /\ \A n \in destBefore.tree : \E m \in dest : m.path = n.path
          /\ \A n \in destBefore.tree :
                n \in dest \/ \E w \in RunPayload : w.path = n.path
          /\ stage = "Done"
                => \A w \in RunPayload : w.kind = "file" => w \in dest

C19_Witness ==
    /\ site = "generator"
    /\ stage = "Done"
    /\ destBefore.tree = OldDest
    /\ dest = Payload(WrappedArchive, <<"wrapper", "ios">>)
                 \cup {Node(<<"stale.txt">>, "file", "old")}

\* C20: during and after a second run with the same archive and srcSubdir,
\* destDir holds the same paths with the same contents as the first run
\* left: the second run changes nothing.
C20_Idempotent ==
    calls >= 2 => (destExists /\ dest = destBefore.tree)

C20_Witness ==
    /\ calls = 2
    /\ stage = "Done"
    /\ archive = WrappedArchive
    /\ srcSubdir = "ios"
    /\ dest = Payload(WrappedArchive, <<"wrapper", "ios">>)
                 \cup {Node(<<"stale.txt">>, "file", "old")}

\* C23: the operation fails exactly when one of its stages raises an error,
\* and the error it throws is that error: the rejection of downloadToFile,
\* the error of extractTarGz, the empty-extraction error, or the error of
\* the file-system call; the scratch directory is gone by then.  Only a
\* copy loop that ran to its end makes the operation return.
C23_ErrorPassedOn ==
    [][/\ (stage # "Failed" /\ stage' = "Failed")
            => /\ opError' # NoError
               /\ ~tempDir'
               /\ stage = "Downloading" => (pc = "rejected" /\ opError' = error)
               /\ stage = "Extracting" => opError' = ExtractError(site, lastError')
               /\ stage = "LocatingPayload" => opError' = NoContentsError
               /\ stage \in {"Pending", "Copying"} => opError'.kind = "fs"
       /\ (stage = "Downloading" /\ pc = "rejected" /\ stage' # stage)
            => stage' = "Failed"
       /\ opError' # opError => (opError = NoError /\ stage' = "Failed")
       /\ (stage # "Done" /\ stage' = "Done")
            => (stage = "Copying" /\ opError' = NoError)]_vars

C23_Witness ==
    /\ stage = "Failed"
    /\ opError.kind = "status"
    /\ opError.statusCode = 404
    /\ ~tempDir

\* C27: extractTarGz runs its candidates in list order, one at a time and
\* each at most once; the first candidate that exits with code 0 ends it
\* and no candidate runs afterwards; when the last candidate has failed it
\* throws an error whose message ends with the message of that failure.
C27_CandidatesInOrder ==
    [][/\ stage' = "Extracting"
            => /\ candidate' \in 1..Len(candidates')
               /\ stage # "Extracting" => candidate' = 1
               /\ (stage = "Extracting" /\ candidate' # candidate)
                    => candidate' = candidate + 1
       /\ (stage = "Extracting" /\ stage' = "LocatingPayload")
            => candidate' = candidate
       /\ stage \in {"LocatingPayload", "Copying", "CopyingBlocked", "Done", "Failed"}
            => candidate' = candidate
       /\ (stage = "Extracting" /\ stage' = "Failed")
            => /\ candidate = Len(candidates)
               /\ \E f \in ChildFailures :
                    lastError' = LastErrorMessage(candidates[candidate], f)
               /\ LET m == opError'.message
                  IN /\ Len(m) > Len(lastError')
                     /\ SubSeq(m, Len(m) - Len(lastError') + 1, Len(m)) = lastError']_vars

C27_Witness ==
    /\ stage = "Failed"
    /\ opError.kind = "extract"
    /\ Len(candidates) = 4
    /\ candidate = 4
    /\ lastError = LastErrorMessage("bsdtar", "exit")

\* C30 as stated: when srcSubdir is given and no directory of that name lies
\* directly under the root left by the wrapper collapse, the payload root is
\* that root, at every call site.
C30_NoDescentWithoutDirectory ==
    (/\ stage \in {"Copying", "CopyingBlocked"}
     /\ srcSubdir # ""
     /\ ~isDirectory(extracted, Append(CollapsedRoot(extracted), srcSubdir)))
       => sourceDir = CollapsedRoot(extracted)


----------------------------------------------------------------------------
(* Two operations whose steps interleave.  The operations share os.tmpdir() *)
(* and nothing else: each has its own destination directory.  The archives *)
(* of these runs hold no special files and the destinations no entries of   *)
(* a kind that differs from the payload's, so the copy loop does not throw. *)

Ops == {1, 2}

\* The names mkdtempSync can give to a scratch directory.
TempNames == {"skia-download-a", "skia-download-b", "skia-download-c"}

ConcArchives == {EmptyArchive, WrappedArchive, FlatArchive, SingleFileArchive}

\* A name of os.tmpdir() under which there is no directory.
NoScratch == [exists |-> FALSE, files |-> {}, extracted |-> {}]

\* A scratch directory as mkdtempSync has created it.
EmptyScratch == [exists |-> TRUE, files |-> {}, extracted |-> {}]

mkdtempSync_FixedName(t) == {"skia-download-a"}

\* fs.mkdtempSync(path.join(os.tmpdir(), "skia-download-")): a directory is
\* created under a name that no entry of os.tmpdir() has.
mkdtempSync(t) == {n \in TempNames : ~t[n].exists}

ConcInit ==
    /\ OpInit
    /\ ~destExists
    /\ srcSubdir = ""
    /\ MainInit
    /\ skiaVersion = DefaultVersion
    /\ npmVersion = NotDerived
    /\ GenIdle(CreatedAtLoop)
    /\ ToolsIdle
    /\ tmp = [n \in TempNames |-> NoScratch]
    /\ dests \in [Ops -> {[exists |-> FALSE, tree |-> {}],
                          [exists |-> TRUE, tree |-> OldDest]}]
    /\ \E assets \in [Ops -> ConcArchives], subs \in [Ops -> SrcSubdirs] :
         ops = [i \in Ops |-> [stage |-> "Pending", tempDir |-> "none",
                               asset |-> assets[i], srcSubdir |-> subs[i],
                               before |-> dests[i]]]

\* fs.rmSync(tempDir, { recursive: true, force: true })
RemoveScratch(t, n) == [t EXCEPT ![n] = NoScratch]

\* The variables of the model of one operation at a time.
seqVars == <<opVars, dlVars, runVars, batchVars, versionVars, pkgVars,
            genVars, toolVars>>

\* The operation is called: mkdtempSync, then the request is sent.
OpStart ==
    \E i \in Ops :
      /\ ops[i].stage = "Pending"
      /\ \E n \in mkdtempSync(tmp) :
           /\ tmp' = [tmp EXCEPT ![n] = EmptyScratch]
           /\ ops' = [ops EXCEPT ![i].stage = "Downloading", ![i].tempDir = n]
      /\ UNCHANGED dests
      /\ UNCHANGED seqVars

\* downloadToFile resolves: the archive is at path.join(tempDir, assetName).
OpDownloaded ==
    \E i \in Ops :
      /\ ops[i].stage = "Downloading"
      /\ tmp[ops[i].tempDir].exists
      /\ tmp' = [tmp EXCEPT ![ops[i].tempDir].files = @ \cup {i}]
      /\ ops' = [ops EXCEPT ![i].stage = "Extracting"]
      /\ UNCHANGED dests
      /\ UNCHANGED seqVars

\* The awaited call throws: the catch block removes the scratch directory.
OpFails ==
    \E i \in Ops :
      /\ ops[i].stage \in {"Downloading", "Extracting"}
      /\ tmp' = RemoveScratch(tmp, ops[i].tempDir)
      /\ ops' = [ops EXCEPT ![i].stage = "Failed"]
      /\ UNCHANGED dests
      /\ UNCHANGED seqVars

\* tar has unpacked the archive of the operation into
\* path.join(tempDir, "extracted").
OpExtracted ==
    \E i \in Ops :
      /\ ops[i].stage = "Extracting"
      /\ i \in tmp[ops[i].tempDir].files
      /\ tmp' = [tmp EXCEPT ![ops[i].tempDir].extracted =
                               Written(@, ops[i].asset)]
      /\ ops' = [ops EXCEPT ![i].stage = "LocatingPayload"]
      /\ UNCHANGED dests
      /\ UNCHANGED seqVars

\* The synchronous rest of the operation: readdirSync(extractDir), the
\* check for an empty extraction, sourceDir, mkdirSync(destDir), the copy
\* loop and rmSync(tempDir).
OpCopies ==
    \E i \in Ops :
      LET n == ops[i].tempDir
          tree == tmp[n].extracted
          src == ResolveSourceDir(site, tree, ops[i].srcSubdir)
      IN  /\ ops[i].stage = "LocatingPayload"
          /\ IF \/ ~tmp[n].exists
                \/ ChecksEmpty(site) /\ readdirSync(tree, <<>>) = {}
               THEN /\ ops' = [ops EXCEPT ![i].stage = "Failed"]
                    /\ UNCHANGED dests
               ELSE /\ ops' = [ops EXCEPT ![i].stage = "Done"]
                    /\ dests' = [dests EXCEPT ![i] =
                          [exists |-> TRUE,
                           tree |-> Written(dests[i].tree,
                                            CopyItems(tree, src,
                                                      readdirSync(tree, src)))]]
          /\ tmp' = RemoveScratch(tmp, n)
          /\ UNCHANGED seqVars

NextConc ==
    \/ OpStart
    \/ OpDownloaded
    \/ OpFails
    \/ OpExtracted
    \/ OpCopies

ConcSpec == ConcInit /\ [][NextConc]_vars

----------------------------------------------------------------------------
(* Properties of whole runs *)

\* The run has done nothing yet: no operation called, no scratch directory,
\* no request, the destination as it was at the start.
Untouched ==
    /\ calls = 0
    /\ ~tempDir
    /\ attempts = 0
    /\ stage = "Pending"
    /\ destExists = destBefore.exists
    /\ dest = destBefore.tree
    /\ libsDir = libs.exists
    /\ platform # "android" => libs = destBefore

\* C21: with SKIP_SKIA_DOWNLOAD equal to "1" or "true" the post-install
\* script ends with status 0 having downloaded nothing and changed nothing
\* in libs; with any other value it does not end at the check: it goes on
\* to the test for installed binaries.
C21_SkipExitsUntouched ==
    site = "postinstall" =>
      /\ (skipEnv \in {"1", "true"} /\ mainPc # "start")
            => (mainPc = "exited" /\ exitStatus = 0 /\ Untouched)
      /\ (skipEnv \notin {"1", "true"} /\ mainPc = "exited" /\ calls = 0)
            => isInstalled(platform, libs, artifacts) # "false"

C21_Witness ==
    /\ site = "postinstall"
    /\ skipEnv = "true"
    /\ mainPc = "exited"
    /\ exitStatus = 0
    /\ destExists
    /\ dest # {}


\* C22: when the post-install script has ended after a failure, the process
\* has exit status 1 and no libs directory is left, the directories of the
\* artifacts installed earlier in the run included; the script ends with
\* status 0 only when every artifact is installed.
C22_FailureRemovesLibs ==
    (site = "postinstall" /\ mainPc = "exited" /\ calls > 0) =>
      \/ /\ exitStatus = 0
         /\ stage = "Done"
         /\ artifact = artifacts
      \/ /\ exitStatus = 1
         /\ ~libsDir
         /\ ~destExists
         /\ dest = {}
         /\ installed = <<>>


\* A download is in flight: a request, a response body, a retry timer or an
\* unlink is pending.
InFlight == pc \notin {"idle", "crashed"}

\* C28: the operations of a run follow one another: the operation of an
\* artifact is called only when the operation before it has returned, its
\* scratch directory is deleted and no download is in flight; the number of
\* operations called never exceeds the position of the loop.
C28_OneAtATime ==
    [][ /\ artifact' # artifact =>
             /\ artifact' = artifact + 1
             /\ stage = "Done"
             /\ ~tempDir
             /\ ~InFlight
        /\ calls' # calls =>
             /\ calls' = calls + 1
             /\ calls = artifact - 1
             /\ ~tempDir
             /\ ~InFlight
             /\ Len(installed) = artifact - 1
        /\ (tempDir' \/ InFlight') => calls' = artifact' ]_vars

C28_Witness ==
    /\ artifact = 2
    /\ Len(installed) = 1
    /\ stage = "Downloading"
    /\ tempDir
    /\ InFlight


\* C29: in the generator and the downloader, once an operation has failed
\* no further operation is called, nothing that was copied is removed, and
\* the process ends with status 1.
C29_FirstFailureStopsBatch ==
    [][ (site # "postinstall" /\ stage = "Failed") =>
          /\ stage' = "Failed"
          /\ artifact' = artifact
          /\ calls' = calls
          /\ installed' = installed
          /\ dest' = dest
          /\ destExists' = destExists
          /\ mainPc' = "exited"
          /\ exitStatus' = 1 ]_vars

C29_Witness ==
    /\ site \in {"generator", "downloader"}
    /\ mainPc = "exited"
    /\ exitStatus = 1
    /\ stage = "Failed"
    /\ artifact = 1
    /\ artifacts = 2
    /\ calls = 1
    /\ dest # {}
    /\ dest # destBefore.tree


----------------------------------------------------------------------------
(* Properties of deriveNpmVersion *)

\* C24: an argument made of "m", one or more decimal digits and at most one
\* lowercase letter is mapped to the digits, ".", the position of the letter
\* in the alphabet (0 without a letter) and ".0"; every other argument is
\* rejected with an error.
C24_VersionDerived ==
    npmVersion # NotDerived =>
      LET s == skiaVersion
          n == Len(s)
          hasLetter == n >= 1 /\ s[n] \in {"a", "c", "m", "z"}
          d == SubSeq(s, 2, IF hasLetter THEN n - 1 ELSE n)
          shape == /\ n >= 2
                   /\ s[1] = "m"
                   /\ d # <<>>
                   /\ \A i \in DOMAIN d : d[i] \in {"0", "1", "4"}
          k == IF ~hasLetter THEN <<"0">>
               ELSE CASE s[n] = "a" -> <<"1">>
                      [] s[n] = "c" -> <<"3">>
                      [] s[n] = "m" -> <<"1", "3">>
                      [] s[n] = "z" -> <<"2", "6">>
      IN  IF shape
            THEN npmVersion = [kind |-> "value",
                               text |-> d \o <<".">> \o k \o <<".", "0">>]
            ELSE npmVersion.kind = "error"

C24_Witness ==
    /\ skiaVersion = <<"m", "1", "4", "z">>
    /\ npmVersion = [kind |-> "value",
                     text |-> <<"1", "4", ".", "2", "6", ".", "0">>]


----------------------------------------------------------------------------
(* Termination of the operation *)

\* The runs in which nothing waits forever: every request gets a response or
\* an error, every stream event, timer and unlink callback fires, the child
\* process exits, and the script takes its next step when it can.
FairSpec == Init /\ [][Next]_vars /\ WF_vars(Next)

\* C25: every operation that has started its download reaches Done or
\* Failed.  Two ways of never getting there belong to C7 and C17 and are set
\* aside here: the process has died of the exception thrown in the response
\* callback, or the copy loop is blocked on a FIFO.
C25_EventuallyEnds ==
    (stage = "Downloading") ~>
        \/ stage \in {"Done", "Failed"}
        \/ pc = "crashed"
        \/ stage = "CopyingBlocked"


----------------------------------------------------------------------------
(* Properties of interleaved operations *)

\* The operation has a scratch directory.
Active(o) == o.stage \in {"Downloading", "Extracting", "LocatingPayload"}

\* The destination of an operation that ran alone and returned: the payload
\* of its archive over what the destination held.
Alone(o) ==
    LET payload == Payload(o.asset, ResolveSourceDir(site, o.asset, o.srcSubdir))
    IN  [exists |-> TRUE,
         tree |-> {d \in o.before.tree : ~\E w \in payload : w.path = d.path}
                    \cup payload]

\* C26: of two interleaved operations with different destination
\* directories, each has a scratch directory of its own; a scratch directory
\* changes only in a step of the operation that owns it; and each
\* destination is what the operation alone would have made of it: unchanged
\* until the copy and after a failure, its payload over the old contents
\* after a successful return.
C26_Isolated ==
    [][ /\ \A i, j \in Ops :
             (i # j /\ Active(ops'[i]) /\ Active(ops'[j]))
                => ops'[i].tempDir # ops'[j].tempDir
        /\ \A n \in TempNames :
             tmp'[n] # tmp[n] =>
               \E i \in Ops :
                 /\ ops'[i] # ops[i]
                 /\ ops'[i].tempDir = n
                 /\ \A j \in Ops \ {i} : ~(Active(ops[j]) /\ ops[j].tempDir = n)
        /\ \A i \in Ops :
             /\ ops'[i] = ops[i] => dests'[i] = dests[i]
             /\ dests'[i] = IF ops'[i].stage = "Done" THEN Alone(ops'[i])
                            ELSE ops'[i].before ]_vars

C26_Witness ==
    /\ ops # <<>>
    /\ ops[1].stage = "Extracting"
    /\ ops[2].stage = "LocatingPayload"
    /\ ops[1].asset = WrappedArchive
    /\ ops[2].asset = FlatArchive
    /\ tmp[ops[1].tempDir].files = {1}
    /\ tmp[ops[2].tempDir].extracted = FlatArchive
    /\ ops[1].tempDir # ops[2].tempDir


----------------------------------------------------------------------------
(* Further properties of one operation *)

\* C32: while the operation is before its Copying stage, no step creates
\* destDir or changes an entry of it; an operation that fails in Pending,
\* Downloading, Extracting or LocatingPayload leaves destDir as it found it.
C32_DestUntouchedBeforeCopying ==
    [][ (mainPc = "looping"
         /\ stage \in {"Pending", "Downloading", "Extracting", "LocatingPayload"})
          => /\ dest' = dest
             /\ destExists' = destExists ]_vars

C32_Witness ==
    /\ stage = "Failed"
    /\ opError.kind \in {"extract", "shape"}
    /\ destExists
    /\ dest = OldDest
    /\ destBefore.tree = OldDest


\* C33: the attempt that follows a retryable failure sends its first request
\* to the URL downloadToFile was called with, whatever URL the failed attempt
\* had been redirected to; within an attempt the URL changes only by a
\* redirect.
C33_RetryFromOriginalUrl ==
    [][ /\ attempts' > attempts => /\ currentUrl' = downloadUrl
                                   /\ pc' = "requesting"
        /\ (attempts' = attempts /\ currentUrl' # currentUrl)
             => /\ pc = "requesting"
                /\ lastRes'.statusCode \in RedirectStatuses
                /\ currentUrl' = lastRes'.location ]_vars

C33_Witness ==
    /\ attempts = 3
    /\ retryCount = 2
    /\ pc = "sleeping"
    /\ currentUrl \in AbsoluteLocations
    /\ lastRes.statusCode = 403


\* C34: one downloadToFile call has one retry counter.  It is 0 when the
\* call starts, whatever the call before it used; it changes only by one
\* step up, taken when a sleep after a transient failure of any class ends,
\* so it always is the number of attempts made before the current one; and
\* a failure of no transient class rejects the call at once, with that
\* failure, however much of the budget is left.
C34_OneSharedCounter ==
    [][ /\ calls' # calls => (retryCount' = 0 /\ attempts' = 1 /\ sleeps' = <<>>)
        /\ (retryCount' # retryCount /\ pc' # "idle")
             => /\ retryCount' = retryCount + 1
                /\ pc = "sleeping"
                /\ Transient(error)
                /\ attempts' = attempts + 1
        /\ attempts' > 0 => (retryCount' = attempts' - 1 /\ retryCount' <= maxRetries)
        /\ (error' # error /\ error' # NoError /\ ~Transient(error'))
             => /\ pc' = "rejected"
                /\ sleeps' = sleeps
                /\ retryCount' = retryCount ]_vars

C34_Witness ==
    /\ calls = 2
    /\ pc = "rejected"
    /\ error.statusCode = 404
    /\ retryCount = 2
    /\ outcomes = <<403, 0, 0>>
    /\ sleeps = <<1000, 2000>>


\* The binaries are installed, as the check is described: libs holds an
\* entry and, for Android, the directory of some architecture of the package
\* holds a .a file; for Apple, libs holds an .xcframework entry.
BinariesInstalled ==
    /\ libs.exists
    /\ libs.tree # {}
    /\ platform = "android" =>
         \E k \in 1..artifacts :
           Node(<<ArchNames[k], "libskia.a">>, "file", "new") \in libs.tree
    /\ platform = "apple" =>
         Node(<<"libskia.xcframework">>, "dir", "") \in libs.tree

\* C35: a post-install run that is not skipped and finds the binaries
\* installed never reaches main: it ends with status 0, no operation
\* called, no scratch directory made, no request sent, libs as it was.
C35_InstalledExitsUntouched ==
    (/\ site = "postinstall"
     /\ skipEnv \notin {"1", "true"}
     /\ mainPc \notin {"start", "checking"}
     /\ run = 1
     /\ BinariesInstalled)
       => /\ mainPc = "exited"
          /\ exitStatus = 0
          /\ Untouched

C35_Witness ==
    /\ site = "postinstall"
    /\ platform = "android"
    /\ artifacts = 2
    /\ skipEnv = "unset"
    /\ mainPc = "exited"
    /\ exitStatus = 0
    /\ Node(<<ArchNames[2], "libskia.a">>, "file", "new") \in libs.tree
    /\ ~existsSync(libs.tree, <<ArchNames[1], "libskia.a">>)


\* C36: when the post-install script is run again after a run that failed
\* in main, there is no libs directory and the check for installed binaries
\* is false.
C36_FailedRunLeavesNothingInstalled ==
    (run > 1 /\ mainPc \in {"start", "checking"})
       => /\ ~libs.exists
          /\ isInstalled(platform, libs, artifacts) = "false"

----------------------------------------------------------------------------
(* Whole runs of the package generator: the version check of main or of    *)
(* generateAllFromConfig, generatePackage, and the sections of a config    *)
(* file.  A section stands for its list of packages by one package.        *)

\* How the generator is started.
Modes == {"single", "single-npm", "config"}

\* The versions a run is started with: two the pattern accepts, and two it
\* rejects.
GenVersions == {<<"m", "1", "4", "4">>, <<"m", "1", "4", "4", "c">>,
                <<"1", "4", "4">>, <<"m", "1", "4", "4", "C">>}

\* The value of --npm-version.
NpmVersionArg == [kind |-> "value", text |-> <<"9", ".", "9", ".", "9">>]

GenInit ==
    /\ OpIdle
    /\ site = "generator"
    /\ srcSubdir = ""
    /\ destExists = FALSE
    /\ dest = {}
    /\ destBefore = [exists |-> FALSE, tree |-> {}]
    /\ platform \in {"android", "apple"}
    /\ artifacts \in 1..MaxArtifacts
    /\ platform # "android" => artifacts = 1
    /\ libs = NoLibs
    /\ libsDir = FALSE
    /\ run = 1
    /\ mainPc = "args"
    /\ skipEnv = "unset"
    /\ artifact = 1
    /\ installed = <<>>
    /\ exitStatus = Running
    /\ mode \in Modes
    /\ section = "ganesh"
    /\ skiaVersion \in GenVersions
    /\ graphiteVersion \in (IF mode = "config" THEN GenVersions ELSE {<<>>})
    /\ npmVersion = NotDerived
    /\ pkgDirs = {}
    /\ packageJson = {}
    /\ ConcIdle
    /\ ToolsIdle

\* main (single mode) or generateAllFromConfig (the skia section) settles
\* the npm version.  --npm-version is taken as it is, and deriveNpmVersion
\* is not called; otherwise deriveNpmVersion runs, and its error ends the
\* process with status 1.
MainVersion ==
    /\ site = "generator"
    /\ mainPc = "args"
    /\ npmVersion' = IF mode = "single-npm" THEN NpmVersionArg
                                           ELSE deriveNpmVersion(skiaVersion)
    /\ IF npmVersion'.kind = "error"
         THEN /\ mainPc' = "exited"
              /\ exitStatus' = 1
         ELSE /\ mainPc' = "package"
              /\ UNCHANGED exitStatus
    /\ UNCHANGED <<skipEnv, artifacts, artifact, installed, libsDir>>
    /\ UNCHANGED <<calls, archive, destBefore>>
    /\ UNCHANGED skiaVersion
    /\ UNCHANGED pkgVars
    /\ UNCHANGED concVars
    /\ UNCHANGED genVars
    /\ UNCHANGED toolVars
    /\ UNCHANGED opVars
    /\ UNCHANGED dlVars

\* generatePackage up to its loop: the package directory and libs are
\* created.  destDir is libs itself, or libs/<arch> for an Android package.
MkdirPackage ==
    /\ site = "generator"
    /\ mainPc = "package"
    /\ mainPc' = "looping"
    /\ pkgDirs' = pkgDirs \cup {section}
    /\ libsDir' = TRUE
    /\ destExists' = (destExists \/ platform # "android")
    /\ destBefore' = [exists |-> destExists', tree |-> dest]
    /\ UNCHANGED <<mode, section, graphiteVersion, packageJson>>
    /\ UNCHANGED toolVars
    /\ UNCHANGED <<skipEnv, artifacts, artifact, installed, exitStatus>>
    /\ UNCHANGED <<calls, archive>>
    /\ UNCHANGED versionVars
    /\ UNCHANGED pkgVars
    /\ UNCHANGED concVars
    /\ UNCHANGED <<site, srcSubdir, stage, tempDir, opError, exVars, extracted,
                   sourceDir, dest>>
    /\ UNCHANGED dlVars

\* generateAllFromConfig after the packages of the skia section: the
\* version of the skia-graphite section goes through deriveNpmVersion, whose
\* error main catches and turns into status 1; otherwise the packages of
\* the skia-graphite section follow.
GraphiteSection ==
    /\ site = "generator"
    /\ mode = "config"
    /\ mainPc = "looping"
    /\ section = "ganesh"
    /\ section \in packageJson
    /\ npmVersion' = deriveNpmVersion(graphiteVersion)
    /\ IF npmVersion'.kind = "error"
         THEN /\ mainPc' = "exited"
              /\ exitStatus' = 1
              /\ UNCHANGED <<section, artifact, installed, libsDir, stage,
                             destExists, dest, destBefore, archive, candidates,
                             candidate, lastError, sourceDir>>
         ELSE /\ mainPc' = "package"
              /\ section' = "graphite"
              /\ artifact' = 1
              /\ installed' = <<>>
              /\ libsDir' = FALSE
              /\ stage' = "Pending"
              /\ destExists' = FALSE
              /\ dest' = {}
              /\ destBefore' = [exists |-> FALSE, tree |-> {}]
              /\ archive' = NoArchive
              /\ candidates' = <<>>
              /\ candidate' = 0
              /\ lastError' = <<>>
              /\ sourceDir' = <<>>
              /\ UNCHANGED exitStatus
    /\ UNCHANGED <<mode, graphiteVersion, pkgDirs, packageJson>>
    /\ UNCHANGED toolVars
    /\ UNCHANGED <<skipEnv, artifacts, skiaVersion, calls>>
    /\ UNCHANGED <<site, srcSubdir, tempDir, opError, extracted>>
    /\ UNCHANGED pkgVars
    /\ UNCHANGED concVars
    /\ UNCHANGED dlVars

NextGen ==
    \/ MainVersion
    \/ MkdirPackage
    \/ Start
    \/ ResponseRedirectNoLocation
    \/ Response200
    \/ FileStreamFinish
    \/ CloseOk
    \/ DownloadRejected
    \/ DownloadResolved
    \/ ChildOk
    \/ ChildFails
    \/ Locate
    \/ CopyAll
    \/ CopyFails
    \/ NextArtifact
    \/ WritePackageFiles
    \/ GraphiteSection
    \/ MainReturns
    \/ MainCatch

GenSpec == GenInit /\ [][NextGen]_vars

----------------------------------------------------------------------------
(* Properties of whole runs of the package generator *)

\* The versions of the sections the run generates packages for.
VersionsInUse ==
    {skiaVersion} \cup (IF mode = "config" THEN {graphiteVersion} ELSE {})

\* A version deriveNpmVersion's pattern /^m(\d+)([a-z])?$/ rejects.
Malformed(v) == ~Match(v).matched

\* C31: in every mode of the package generator, a run started with a
\* malformed skia version issues no network request and creates no package
\* directory, and when it has exited its status is not zero.
C31_MalformedVersionNoSideEffect ==
    (\E v \in VersionsInUse : Malformed(v)) =>
        /\ calls = 0
        /\ attempts = 0
        /\ pkgDirs = {}
        /\ mainPc = "exited" => exitStatus # 0

\* C37: in the bundling generator, whenever package.json and README.md of
\* the current package are written, the operation of every artifact of the
\* package has returned successfully, the destination of the last artifact
\* holds its complete payload and the destinations of the earlier artifacts
\* are kept.
C37_PackageFilesAfterAllArtifacts ==
    (site = "generator" /\ section \in packageJson) =>
        /\ stage = "Done"
        /\ artifact = artifacts
        /\ Len(installed) = artifacts - 1
        /\ calls >= artifacts
        /\ \A n \in RunPayload : n \in dest

C37_Witness ==
    /\ site = "generator"
    /\ section \in packageJson
    /\ artifacts = MaxArtifacts
    /\ Len(installed) = artifacts - 1
    /\ RunPayload # {}
    /\ \A n \in RunPayload : n \in dest

----------------------------------------------------------------------------
(* The URL of an asset as the three call sites form it.  Strings are        *)
(* sequences of one-character strings, template literals concatenations.   *)

\* const REPO of the generator and of the standalone downloader.
REPO ==
    <<"s", "h", "o", "p", "i", "f", "y", "/", "r", "e", "a", "c", "t",
      "-", "n", "a", "t", "i", "v", "e", "-", "s", "k", "i", "a">>

\* Artifact names of the package configurations.
Artifacts == {
    <<"s", "k", "i", "a", "-", "a", "n", "d", "r", "o", "i", "d", "-",
      "a", "r", "m">>,
    <<"s", "k", "i", "a", "-", "a", "p", "p", "l", "e", "-", "i", "o",
      "s", "-", "x", "c", "f", "r", "a", "m", "e", "w", "o", "r", "k", "s">>}

\* Values of --skia-version.  The generator that writes the package.json of
\* the post-install script takes the argument as it is.
UrlVersions == {<<"m", "1", "4", "4">>, <<"m", "1", "4", "4", "c">>,
                <<"m", "\"", "1">>, <<"m", "\\", "1">>}

SkiaPrefix ==
    <<"s", "k", "i", "a">>

GraphitePrefix ==
    <<"s", "k", "i", "a", "-", "g", "r", "a", "p", "h", "i", "t", "e">>

\* generatePackage of the bundling generator:
\* prefix = graphite ? "skia-graphite" : "skia"; `${prefix}-${skiaVersion}`.
releaseTagOfPrefix(graphite, version) ==
    LET prefix == IF graphite THEN GraphitePrefix ELSE SkiaPrefix
    IN  prefix \o <<"-">> \o version

\* downloadArtifact and generatePackageJson:
\* graphite ? `skia-graphite-${skiaVersion}` : `skia-${skiaVersion}`.
releaseTagOf(graphite, version) ==
    IF graphite THEN GraphitePrefix \o <<"-">> \o version
                ELSE SkiaPrefix \o <<"-">> \o version

\* `${artifact}-${releaseTag}.tar.gz`
assetNameOf(artifactName, releaseTag) ==
    artifactName \o <<"-">> \o releaseTag \o
        <<".", "t", "a", "r", ".", "g", "z">>

\* `https://github.com/${repo}/releases/download/${releaseTag}/${assetName}`
downloadUrlOf(repo, releaseTag, assetName) ==
    <<"h", "t", "t", "p", "s", ":", "/", "/", "g", "i", "t", "h", "u",
      "b", ".", "c", "o", "m", "/">>
    \o repo \o
    <<"/", "r", "e", "l", "e", "a", "s", "e", "s", "/", "d", "o", "w",
      "n", "l", "o", "a", "d", "/">>
    \o releaseTag \o <<"/">> \o assetName

\* JSON.stringify of a string: quoted, with the quote and the backslash
\* escaped.
RECURSIVE Escape(_)
Escape(s) ==
    IF s = <<>> THEN <<>>
    ELSE (IF Head(s) \in {"\"", "\\"} THEN <<"\\", Head(s)>> ELSE <<Head(s)>>)
         \o Escape(Tail(s))

JSONstringify(s) == <<"\"">> \o Escape(s) \o <<"\"">>

RECURSIVE Unescape(_)
Unescape(s) ==
    IF s = <<>> THEN <<>>
    ELSE IF Head(s) = "\\" /\ Len(s) >= 2
           THEN <<s[2]>> \o Unescape(Tail(Tail(s)))
           ELSE <<Head(s)>> \o Unescape(Tail(s))

\* The text between the quotes, its escapes left as they are.
JSONparse_Raw(t) == SubSeq(t, 2, Len(t) - 1)

\* JSON.parse of a string literal.
JSONparse(t) == Unescape(SubSeq(t, 2, Len(t) - 1))

\* package.json is not written yet.
NoPackageJson == <<>>

\* No request yet.
NoUrl == <<>>

\* The variables of the downloads and of the runs of the scripts.
idleVars == <<opVars, dlVars, runVars, batchVars, versionVars, concVars,
             pkgVars, genVars>>

\* Everything but the URL formation and the verifier is at rest.
OthersIdle ==
    /\ OpIdle
    /\ site = "generator"
    /\ srcSubdir = ""
    /\ DestIs([exists |-> FALSE, tree |-> {}])
    /\ MainInit
    /\ skiaVersion = DefaultVersion
    /\ npmVersion = NotDerived
    /\ ConcIdle
    /\ GenIdle({})

UrlInit ==
    /\ OthersIdle
    /\ asset \in [artifact : Artifacts, graphite : BOOLEAN,
                  version : UrlVersions]
    /\ packageJsonText = NoPackageJson
    /\ requested = [s \in Sites |-> NoUrl]
    /\ vArgs = <<>>
    /\ vDirs = <<>>
    /\ vExpected = <<>>
    /\ results = <<>>
    /\ vPc = "idle"
    /\ vStatus = Running

\* generatePackageJson and the write of package.json: the skia entry with
\* repo, releaseTag and assetName.
GeneratePackageJson ==
    /\ packageJsonText = NoPackageJson
    /\ LET releaseTag == releaseTagOf(asset.graphite, asset.version)
       IN  packageJsonText' =
             [repo |-> JSONstringify(REPO),
              releaseTag |-> JSONstringify(releaseTag),
              assetName |-> JSONstringify(assetNameOf(asset.artifact, releaseTag))]
    /\ UNCHANGED <<asset, requested>>
    /\ UNCHANGED checkVars
    /\ UNCHANGED idleVars

\* The post-install script reads pkg.skia from package.json and forms the
\* URL from repo, releaseTag and assetName.
PostinstallRequest ==
    /\ packageJsonText # NoPackageJson
    /\ requested["postinstall"] = NoUrl
    /\ LET repo == JSONparse(packageJsonText.repo)
           releaseTag == JSONparse(packageJsonText.releaseTag)
           assetName == JSONparse(packageJsonText.assetName)
       IN  requested' = [requested EXCEPT !["postinstall"] =
                           downloadUrlOf(repo, releaseTag, assetName)]
    /\ UNCHANGED <<asset, packageJsonText>>
    /\ UNCHANGED checkVars
    /\ UNCHANGED idleVars

\* The bundling generator: generatePackage forms the tag,
\* downloadAndExtractAsset the asset name and the URL.
GeneratorRequest ==
    /\ requested["generator"] = NoUrl
    /\ LET releaseTag == releaseTagOfPrefix(asset.graphite, asset.version)
           assetName == assetNameOf(asset.artifact, releaseTag)
       IN  requested' = [requested EXCEPT !["generator"] =
                           downloadUrlOf(REPO, releaseTag, assetName)]
    /\ UNCHANGED <<asset, packageJsonText>>
    /\ UNCHANGED checkVars
    /\ UNCHANGED idleVars

\* The standalone downloader: downloadArtifact.
DownloaderRequest ==
    /\ requested["downloader"] = NoUrl
    /\ LET releaseTag == releaseTagOf(asset.graphite, asset.version)
           assetName == assetNameOf(asset.artifact, releaseTag)
       IN  requested' = [requested EXCEPT !["downloader"] =
                           downloadUrlOf(REPO, releaseTag, assetName)]
    /\ UNCHANGED <<asset, packageJsonText>>
    /\ UNCHANGED checkVars
    /\ UNCHANGED idleVars

NextUrl ==
    \/ GeneratePackageJson
    \/ PostinstallRequest
    \/ GeneratorRequest
    \/ DownloaderRequest

UrlSpec == UrlInit /\ [][NextUrl]_vars

----------------------------------------------------------------------------
(* Properties of the URL formation *)

\* The URL of the asset as the release serves it.
AssetUrl ==
    LET tag == (IF asset.graphite
                  THEN
                    <<"s", "k", "i", "a", "-", "g", "r", "a", "p", "h",
                      "i", "t", "e", "-">>
                  ELSE
                    <<"s", "k", "i", "a", "-">>
               ) \o asset.version
    IN
        <<"h", "t", "t", "p", "s", ":", "/", "/", "g", "i", "t", "h", "u",
          "b", ".", "c", "o", "m", "/", "s", "h", "o", "p", "i", "f", "y",
          "/", "r", "e", "a", "c", "t", "-", "n", "a", "t", "i", "v", "e",
          "-", "s", "k", "i", "a", "/", "r", "e", "l", "e", "a", "s", "e",
          "s", "/", "d", "o", "w", "n", "l", "o", "a", "d", "/">>
        \o tag \o <<"/">> \o asset.artifact \o <<"-">> \o tag \o
        <<".", "t", "a", "r", ".", "g", "z">>

\* C38: for one artifact name, backend flavor and skia version, every call
\* site that has sent its request has requested
\* https://github.com/shopify/react-native-skia/releases/download/<tag>/<artifact>-<tag>.tar.gz
\* with <tag> = skia-<version> or skia-graphite-<version>; the post-install
\* script forms it from the repo, releaseTag and assetName that
\* generatePackageJson has stored in package.json.
C38_SameUrlAtEverySite ==
    \A s \in DOMAIN requested :
        requested[s] # NoUrl => requested[s] = AssetUrl

C38_Witness ==
    /\ asset.graphite
    /\ \E i \in 1..Len(asset.version) : asset.version[i] = "\""
    /\ \A s \in Sites : requested[s] = AssetUrl

----------------------------------------------------------------------------
(* The checksum verifier.  A digest stands for the bytes hash.update has    *)
(* been fed, one entry per file: SHA-256 is taken to tell two streams       *)
(* apart.                                                                   *)

\* The largest number of platforms whose directory or expected checksum is
\* not that of a verified installation.
MaxDeviations == 2

\* const androidArchs of verifyChecksums.
androidArchs == <<"armeabi-v7a", "arm64-v8a", "x86", "x86_64">>

\* graphite ? ["ios", "macos"] : ["ios", "tvos", "macos"]
applePlatforms(graphite) ==
    IF graphite THEN <<"ios", "macos">> ELSE <<"ios", "tvos", "macos">>

\* `android-${arch}` and `apple-${platform}-xcframeworks`, in the order of
\* the two loops.
checksumKeys(graphite) ==
    [i \in 1..Len(androidArchs) |-> <<"android", androidArchs[i]>>]
    \o [i \in 1..Len(applePlatforms(graphite)) |->
          <<"apple", applePlatforms(graphite)[i], "xcframeworks">>]

\* Every key a config may hold.
AllKeys == {checksumKeys(FALSE)[i] : i \in 1..Len(checksumKeys(FALSE))}

\* What is at the path of a platform directory.
AbsentDir == [kind |-> "absent", tree |-> {}]
NotADir == [kind |-> "file", tree |-> {}]
Dir(tree) == [kind |-> "dir", tree |-> tree]

NewLib == {Node(<<"libskia.a">>, "file", "new")}
OldLib == {Node(<<"libskia.a">>, "file", "old")}
LibWithHeaders == {Node(<<"include">>, "dir", ""),
                   Node(<<"include", "a.h">>, "file", "new"),
                   Node(<<"libskia.a">>, "file", "new"),
                   Node(<<"current">>, "symlink", ""),
                   Node(<<"current", "b.h">>, "file", "new")}

\* The relative paths of the trees above as files.sort() orders them.
PathsInOrder == <<<<"current", "b.h">>, <<"include", "a.h">>, <<"libskia.a">>>>

\* collectFiles: a regular file is collected when every directory above it
\* is a directory entry; entries that are neither are passed over.
Collected(tree, n) ==
    /\ n.kind = "file"
    /\ \A k \in 1..(Len(n.path) - 1) :
         \E d \in tree : d.path = SubSeq(n.path, 1, k) /\ d.kind = "dir"

\* files.sort(), then hash.update(relativePath), hash.update(content).
RECURSIVE Feed(_, _)
Feed(tree, paths) ==
    IF paths = <<>> THEN <<>>
    ELSE LET here == {n \in tree : n.path = Head(paths) /\ Collected(tree, n)}
         IN  (IF here = {} THEN <<>>
              ELSE LET n == CHOOSE m \in here : TRUE
                   IN  <<[relativePath |-> n.path, content |-> n.data]>>)
             \o Feed(tree, Tail(paths))

\* The values of expected and actual: undefined, null or a string.
Undefined == [kind |-> "undefined", value |-> <<>>]
Null == [kind |-> "null", value |-> <<>>]
Hex(stream) == [kind |-> "string", value |-> stream]

\* calculateDirectoryChecksum: null when the path does not exist.  (At a
\* path that is no directory readdirSync throws; see VerifyPlatformThrows.)
calculateDirectoryChecksum(directory) ==
    IF directory.kind = "absent" THEN Null
    ELSE Hex(Feed(directory.tree, PathsInOrder))

\* An installation as verified: the directory and the checksum the config
\* holds for it.
GoodDirs == {Dir(NewLib), Dir(LibWithHeaders)}

\* What a platform may be found with otherwise: directory and expected entry.
Deviations ==
    {<<AbsentDir, Hex(Feed(NewLib, PathsInOrder))>>,
     <<AbsentDir, Undefined>>,
     <<AbsentDir, Null>>,
     <<Dir(NewLib), Undefined>>,
     <<Dir(NewLib), Null>>,
     <<Dir(OldLib), Hex(Feed(NewLib, PathsInOrder))>>,
     <<Dir({}), Hex(Feed(NewLib, PathsInOrder))>>,
     <<NotADir, Hex(Feed(NewLib, PathsInOrder))>>}

\* --config: not given, naming no file, a file without the section of the
\* backend, a section without checksums, or a section with checksums.
ConfigKinds == {"none", "notfound", "nosection", "nochecksums", "ok"}

CheckInit ==
    /\ OthersIdle
    /\ asset = <<>>
    /\ packageJsonText = <<>>
    /\ requested = <<>>
    /\ vArgs \in [config : ConfigKinds, graphite : BOOLEAN]
    /\ \E good \in GoodDirs, bad \in SUBSET AllKeys :
         /\ Cardinality(bad) <= MaxDeviations
         /\ vArgs.config # "ok" => bad = {}
         /\ \E dev \in [bad -> Deviations] :
              /\ vDirs = [k \in AllKeys |->
                            IF k \in bad THEN dev[k][1] ELSE good]
              /\ vExpected = [k \in AllKeys |->
                                IF k \in bad THEN dev[k][2]
                                ELSE Hex(Feed(good.tree, PathsInOrder))]
    /\ results = <<>>
    /\ vPc = "start"
    /\ vStatus = Running

\* skiaConfig.checksums || {}
expectedChecksums ==
    IF vArgs.config = "nochecksums" THEN [k \in AllKeys |-> Undefined]
                                    ELSE vExpected

\* main up to the call of verifyChecksums: process.exit(1) without --config,
\* without the file, without the section.
VerifierStart ==
    /\ vPc = "start"
    /\ IF vArgs.config \in {"none", "notfound", "nosection"}
         THEN /\ vPc' = "exited"
              /\ vStatus' = 1
         ELSE /\ vPc' = "verifying"
              /\ UNCHANGED vStatus
    /\ UNCHANGED <<vArgs, vDirs, vExpected, results>>
    /\ UNCHANGED urlVars
    /\ UNCHANGED idleVars

\* One turn of the loops of verifyChecksums.
VerifyPlatform ==
    /\ vPc = "verifying"
    /\ Len(results) < Len(checksumKeys(vArgs.graphite))
    /\ LET checksumKey == checksumKeys(vArgs.graphite)[Len(results) + 1]
           expected == expectedChecksums[checksumKey]
           directory == vDirs[checksumKey]
           actual == calculateDirectoryChecksum(directory)
       IN  /\ directory.kind # "file"
           /\ results' = Append(results,
                [platform |-> checksumKey, expected |-> expected,
                 actual |-> actual, match |-> (expected = actual),
                 exists |-> (actual # Null)])
    /\ UNCHANGED <<vArgs, vDirs, vExpected, vPc, vStatus>>
    /\ UNCHANGED urlVars
    /\ UNCHANGED idleVars

\* The path of the platform is no directory: existsSync is true, readdirSync
\* throws, nothing catches it and the process ends with status 1.
VerifyPlatformThrows ==
    /\ vPc = "verifying"
    /\ Len(results) < Len(checksumKeys(vArgs.graphite))
    /\ vDirs[checksumKeys(vArgs.graphite)[Len(results) + 1]].kind = "file"
    /\ vPc' = "exited"
    /\ vStatus' = 1
    /\ UNCHANGED <<vArgs, vDirs, vExpected, results>>
    /\ UNCHANGED urlVars
    /\ UNCHANGED idleVars

\* allMatch is false only for a mismatch.
VerifierReport_MatchOnly ==
    /\ vPc = "verifying"
    /\ Len(results) = Len(checksumKeys(vArgs.graphite))
    /\ LET allMatch == \A i \in 1..Len(results) : results[i].match
       IN  vStatus' = IF allMatch THEN 0 ELSE 1
    /\ vPc' = "exited"
    /\ UNCHANGED <<vArgs, vDirs, vExpected, results>>
    /\ UNCHANGED urlVars
    /\ UNCHANGED idleVars

\* main after verifyChecksums: allMatch, then process.exit(0) or
\* process.exit(1).
VerifierReport ==
    /\ vPc = "verifying"
    /\ Len(results) = Len(checksumKeys(vArgs.graphite))
    /\ LET allMatch == \A i \in 1..Len(results) :
                          results[i].exists /\ results[i].match
       IN  vStatus' = IF allMatch THEN 0 ELSE 1
    /\ vPc' = "exited"
    /\ UNCHANGED <<vArgs, vDirs, vExpected, results>>
    /\ UNCHANGED urlVars
    /\ UNCHANGED idleVars

NextCheck ==
    \/ VerifierStart
    \/ VerifyPlatform
    \/ VerifyPlatformThrows
    \/ VerifierReport

CheckSpec == CheckInit /\ [][NextCheck]_vars

----------------------------------------------------------------------------
(* Properties of the checksum verifier *)

\* The platforms of the selected backend.
PlatformsOfBackend ==
    {<<"android", "armeabi-v7a">>, <<"android", "arm64-v8a">>,
     <<"android", "x86">>, <<"android", "x86_64">>,
     <<"apple", "ios", "xcframeworks">>, <<"apple", "macos", "xcframeworks">>}
    \cup (IF vArgs.graphite THEN {} ELSE {<<"apple", "tvos", "xcframeworks">>})

\* The config of the run holds an expected checksum for platform k.
HasExpected(k) ==
    /\ vArgs.config = "ok"
    /\ vExpected[k].kind = "string"

\* The directory of platform k exists and its checksum is the expected one.
Verified(k) ==
    /\ vDirs[k].kind = "dir"
    /\ HasExpected(k)
    /\ vExpected[k] = calculateDirectoryChecksum(vDirs[k])

\* C39: the verifier exits with status 0 if and only if every platform of
\* the selected backend has its directory and the directory's checksum is
\* the expected checksum of the config; with a missing directory or a
\* missing expected entry the exit status is 1.
C39_ExitZeroIffAllVerified ==
    vPc = "exited" =>
        /\ vStatus \in {0, 1}
        /\ vStatus = 0 <=> \A k \in PlatformsOfBackend : Verified(k)
        /\ (\E k \in PlatformsOfBackend :
               vDirs[k].kind = "absent" \/ ~HasExpected(k)) => vStatus = 1

C39_Witness ==
    /\ vPc = "exited"
    /\ vStatus = 0
    /\ vArgs.graphite
    /\ Len(results) = 6
    /\ vDirs[<<"apple", "tvos", "xcframeworks">>] = AbsentDir
    /\ vDirs[<<"apple", "ios", "xcframeworks">>] = Dir(LibWithHeaders)

=============================================================================
